---- MODULE Spec2Model ----
(***************************************************************************)
(* Tidal NG download session and configuration store.                      *)
(*                                                                         *)
(* The model covers TidalNGConfig / TidalNGConfigManager                   *)
(* (bot/helpers/tidal_ng/config_manager.py), the restore command of        *)
(* bot/modules/tidal_ng_enhanced_commands.py and TidalNGDownloader /       *)
(* start_tidal_ng_enhanced (bot/helpers/tidal_ng/enhanced_handler.py).     *)
(*                                                                         *)
(* Bot handlers are coroutines of one event loop: code between two awaits  *)
(* runs without interleaving of other handlers.  File writes are split     *)
(* into their file-system steps (open-truncate, write, rename) because the *)
(* child process and I/O faults observe the file between those steps.      *)
(***************************************************************************)
EXTENDS Integers, Sequences, FiniteSets, TLC

(***************************************************************************)
(* Python values that can sit in a settings record: str, int, bool.        *)
(***************************************************************************)
S(x) == [t |-> "str", v |-> x]
I(x) == [t |-> "int", v |-> x]
B(x) == [t |-> "bool", v |-> x]

\* isinstance(x, int): bool is a subclass of int
IsInt(x) == x.t \in {"int", "bool"}
IsBool(x) == x.t = "bool"
IsStr(x) == x.t = "str"
\* numeric value of an int or bool
Num(x) == IF x.t = "bool" THEN (IF x.v THEN 1 ELSE 0) ELSE x.v
\* Python truthiness: not x
Falsy(x) ==
    \/ x.t = "str" /\ x.v = ""
    \/ x.t = "int" /\ x.v = 0
    \/ x.t = "bool" /\ x.v = FALSE

\* bool(value)
PyBool(x) == B(~Falsy(x))

QualityAudio == {S("LOW"), S("HIGH"), S("LOSSLESS"), S("HI_RES_LOSSLESS")}
QualityVideo == {S("360"), S("480"), S("720"), S("1080")}

(***************************************************************************)
(* TidalNGConfig: the declared fields and their defaults.                  *)
(***************************************************************************)
BoolFields ==
    {"download_delay", "lyrics_embed", "lyrics_file", "metadata_cover_embed",
     "cover_album_file", "metadata_replay_gain", "skip_existing", "extract_flac",
     "symlink_to_track", "video_download", "video_convert_mp4", "playlist_create"}
PathFields == {"download_base_path", "path_binary_ffmpeg"}
Fields ==
    BoolFields \cup PathFields \cup
    {"downloads_concurrent_max", "downloads_simultaneous_per_track_max",
     "quality_audio", "quality_video", "metadata_cover_dimension",
     "album_track_num_pad_min", "retry_attempts", "timeout_seconds", "chunk_size"}

TidalNGConfig ==
    [download_base_path |-> S("~/download"),
     downloads_concurrent_max |-> I(3),
     downloads_simultaneous_per_track_max |-> I(1),
     download_delay |-> B(FALSE),
     quality_audio |-> S("LOSSLESS"),
     quality_video |-> S("1080"),
     lyrics_embed |-> B(TRUE),
     lyrics_file |-> B(TRUE),
     metadata_cover_embed |-> B(TRUE),
     metadata_cover_dimension |-> I(1200),
     cover_album_file |-> B(TRUE),
     metadata_replay_gain |-> B(TRUE),
     skip_existing |-> B(TRUE),
     extract_flac |-> B(TRUE),
     symlink_to_track |-> B(FALSE),
     video_download |-> B(TRUE),
     video_convert_mp4 |-> B(TRUE),
     playlist_create |-> B(TRUE),
     album_track_num_pad_min |-> I(2),
     path_binary_ffmpeg |-> S("/usr/bin/ffmpeg"),
     retry_attempts |-> I(3),
     timeout_seconds |-> I(300),
     chunk_size |-> I(1048576)]

\* a dict / JSON object with no key
EmptyObj == [k \in {} |-> I(0)]

\* d1.update(d2) on dicts
Update(d1, d2) ==
    [k \in (DOMAIN d1) \cup (DOMAIN d2) |-> IF k \in DOMAIN d2 THEN d2[k] ELSE d1[k]]

\* to_dict: the declared fields of the record, nothing else
to_dict(config) == [f \in Fields |-> config[f]]

\* names every TidalNGConfig instance has besides its fields (hasattr is true)
MethodNames == {"validate", "to_dict", "from_dict"}

\* from_dict: defaults, overridden by every key of data for which hasattr holds;
\* a key that names a method replaces the method on the instance
from_dict(data) ==
    [a \in Fields \cup ((DOMAIN data) \cap MethodNames) |->
        IF a \in DOMAIN data THEN data[a] ELSE TidalNGConfig[a]]

\* setattr(config, key, value): any attribute name is accepted
SetAttr(config, key, value) ==
    [a \in (DOMAIN config) \cup {key} |-> IF a = key THEN value ELSE config[a]]

(***************************************************************************)
(* TidalNGConfig.validate.  A violation is named by the field it is about; *)
(* the list is in the order of the checks.  Ordering a str against an int  *)
(* raises TypeError.                                                       *)
(***************************************************************************)
ValidatedFields ==
    <<"quality_audio", "quality_video", "downloads_concurrent_max",
      "metadata_cover_dimension", "retry_attempts", "timeout_seconds",
      "download_base_path", "path_binary_ffmpeg">>
RangeFields ==
    {"downloads_concurrent_max", "metadata_cover_dimension", "retry_attempts",
     "timeout_seconds"}

FieldViolated(config, f) ==
    CASE f = "quality_audio" -> config[f] \notin QualityAudio
      [] f = "quality_video" -> config[f] \notin QualityVideo
      [] f = "downloads_concurrent_max" -> Num(config[f]) <= 0 \/ Num(config[f]) > 10
      [] f = "metadata_cover_dimension" -> Num(config[f]) <= 0 \/ Num(config[f]) > 5000
      [] f = "retry_attempts" -> Num(config[f]) < 0 \/ Num(config[f]) > 10
      [] f = "timeout_seconds" -> Num(config[f]) <= 0 \/ Num(config[f]) > 3600
      [] f = "download_base_path" -> Falsy(config[f])
      [] f = "path_binary_ffmpeg" -> Falsy(config[f])

validate(config) ==
    IF \E f \in RangeFields : IsStr(config[f])
    THEN [raised |-> TRUE, errors |-> << >>]
    ELSE [raised |-> FALSE,
          errors |-> SelectSeq(ValidatedFields, LAMBDA f : FieldViolated(config, f))]


\* config.validate() as a call: a replaced method is not callable (TypeError)
CallValidate(config) ==
    IF "validate" \in DOMAIN config
    THEN [raised |-> TRUE, errors |-> << >>]
    ELSE validate(config)

\* save_config's test: validation neither raised nor reported a violation
Valid(config) == ~CallValidate(config).raised /\ CallValidate(config).errors = << >>

(***************************************************************************)
(* get_presets: the static preset table.                                   *)
(***************************************************************************)
Preset(overrides) == Update(TidalNGConfig, overrides)

get_presets ==
    [high_quality |->
        Preset([quality_audio |-> S("HI_RES_LOSSLESS"), quality_video |-> S("1080"),
                metadata_cover_embed |-> B(TRUE), metadata_cover_dimension |-> I(2000),
                lyrics_embed |-> B(TRUE), lyrics_file |-> B(TRUE),
                extract_flac |-> B(TRUE), downloads_concurrent_max |-> I(2),
                retry_attempts |-> I(5)]),
     fast_download |->
        Preset([quality_audio |-> S("HIGH"), quality_video |-> S("720"),
                downloads_concurrent_max |-> I(5),
                downloads_simultaneous_per_track_max |-> I(2),
                metadata_cover_embed |-> B(FALSE), lyrics_embed |-> B(FALSE),
                extract_flac |-> B(FALSE), retry_attempts |-> I(2),
                timeout_seconds |-> I(180)]),
     minimal |->
        Preset([quality_audio |-> S("HIGH"), quality_video |-> S("480"),
                metadata_cover_embed |-> B(FALSE), lyrics_embed |-> B(FALSE),
                lyrics_file |-> B(FALSE), extract_flac |-> B(FALSE),
                playlist_create |-> B(FALSE), downloads_concurrent_max |-> I(1)]),
     archive_quality |->
        Preset([quality_audio |-> S("HI_RES_LOSSLESS"), quality_video |-> S("1080"),
                metadata_cover_embed |-> B(TRUE), metadata_cover_dimension |-> I(3000),
                lyrics_embed |-> B(TRUE), lyrics_file |-> B(TRUE),
                extract_flac |-> B(TRUE), metadata_replay_gain |-> B(TRUE),
                download_delay |-> B(TRUE), downloads_concurrent_max |-> I(1),
                retry_attempts |-> I(5), timeout_seconds |-> I(600)]),
     balanced |->
        Preset([quality_audio |-> S("LOSSLESS"), quality_video |-> S("720"),
                metadata_cover_embed |-> B(TRUE), metadata_cover_dimension |-> I(1200),
                lyrics_embed |-> B(TRUE), lyrics_file |-> B(FALSE),
                extract_flac |-> B(TRUE), downloads_concurrent_max |-> I(3),
                retry_attempts |-> I(3)])]

(***************************************************************************)
(* TidalNGConfigManager._validate_value: the per-key check of set_value.   *)
(***************************************************************************)
_validate_value(key, value) ==
    CASE key = "quality_audio" -> value \in QualityAudio
      [] key = "quality_video" -> value \in QualityVideo
      [] key \in {"downloads_concurrent_max", "downloads_simultaneous_per_track_max",
                  "metadata_cover_dimension", "album_track_num_pad_min",
                  "retry_attempts"} -> IsInt(value) /\ Num(value) > 0
      [] key = "timeout_seconds" ->
            IsInt(value) /\ 1 <= Num(value) /\ Num(value) <= 3600
      [] key \in BoolFields -> IsBool(value)
      [] key \in PathFields -> IsStr(value) /\ value.v # ""
      [] OTHER -> TRUE


(***************************************************************************)
(* Bounds of the model.                                                    *)
(***************************************************************************)
\* configuration commands issued in one behaviour
MaxCmds == 2
\* seconds the wall clock advances
MaxClock == 1
\* configuration commands issued while a download session runs
MaxSessCmds == 1
\* backup commands (backup, save, restore, cleanup) issued in one behaviour
MaxPruneCmds == 3
\* largest keep_count handed to cleanup_old_backups
MaxKeep == 2
\* files one download leaves behind
MaxFiles == 3
\* words in one line of the child's output
MaxWords == 2
\* lines the child writes to each of its output streams
MaxLines == 2
\* largest value a caller gives the 'concurrent' option
MaxConcurrent == 12
\* lines a pipe to the supervisor holds (the operating system's pipe buffer and
\* the StreamReader's) before a write of the child blocks
PipeCapacity == 1

Sessions == {1, 2}

(***************************************************************************)
(* State.                                                                  *)
(***************************************************************************)
VARIABLES
    file,       \* content of settings.json: [kind, obj]
    fileMtime,  \* its modification time
    tmp,        \* content of settings.tmp
    backups,    \* backups directory: timestamp name -> [content, mtime]
    cfg,        \* config_manager._config: [set, rec]
    clock,      \* wall clock, in seconds (backup names have this resolution)
    io,         \* the file write that is between two of its file-system steps
    ret,        \* result of the last configuration command
    cmds,       \* configuration commands issued so far
    live,       \* the sessions that may be started
    quota,      \* configuration commands that may be issued
    dirs,       \* temporary download directories that exist on disk
    pipe,       \* per session: lines the child wrote to stdout / stderr, not yet read
    hand,       \* per session and drain: lines read so far, reporter calls still to make
    calls,      \* per session: the calls the monitoring tasks made on the reporter
    probe,      \* argument and result of a pure function under test
    pc,         \* per session: position in start_tidal_ng_enhanced / download
    orig,       \* per session: original_settings
    overlay,    \* per session: the settings written by _apply_download_settings
    cancel,     \* per session: user['cancel_event'] is set
    child,      \* per session: the child process [st, code, term, saw]
    mon,        \* per session: the monitoring tasks [out, err, poll, seen]
    work,       \* per session: files collected and metadata extracted
    outcome     \* per session: the TidalNGDownloadResult returned by download

storeVars == <<file, fileMtime, tmp, backups, cfg, ret, cmds>>
sessVars == <<pc, orig, overlay, cancel, child, mon, work, outcome>>
vars == <<file, fileMtime, tmp, backups, cfg, clock, io, ret, cmds, live, quota, dirs,
          pipe, hand, calls, probe,
          pc, orig, overlay, cancel, child, mon, work, outcome>>

\* file contents
Absent == [kind |-> "absent", obj |-> EmptyObj]
Partial == [kind |-> "partial", obj |-> EmptyObj]
Json(o) == [kind |-> "json", obj |-> o]
\* a file that parses as JSON but not to an object (a list, a number)
NonObject == [kind |-> "array", obj |-> EmptyObj]

NoIo == [op |-> "none", step |-> "none", s |-> 0, new |-> EmptyObj, old |-> Absent,
         call |-> "none", key |-> "", val |-> I(0), src |-> 0]
NoRet == [op |-> "none", ok |-> FALSE, raised |-> FALSE, key |-> "", val |-> I(0)]
Ret(op, ok, key, val) == [op |-> op, ok |-> ok, raised |-> FALSE, key |-> key, val |-> val]

\* the modification time a write gives a file now: later than that of every
\* file written before (copy2 alone gives a file an older time, its source's)
NewMtime ==
    LET times == {fileMtime} \cup {backups[n].mtime : n \in DOMAIN backups} IN
    1 + CHOOSE m \in times : \A k \in times : k <= m

\* synchronous handler code runs only when no other write is between its steps
Quiet == io.op = "none"
CanCmd == Quiet /\ cmds < quota

(***************************************************************************)
(* TidalNGConfigManager                                                    *)
(***************************************************************************)
\* _backup_config: copy2 of the settings file, whatever it holds, under the
\* name of the current second; copy2 also copies the modification time
_backup_config(bk, f, fm, now) ==
    IF f.kind = "absent"
    THEN bk
    ELSE [n \in (DOMAIN bk) \cup {now} |->
            IF n = now THEN [content |-> f, mtime |-> fm] ELSE bk[n]]

\* load_config: the record it leaves in _config
load_config(f) == IF f.kind = "json" THEN from_dict(f.obj) ELSE TidalNGConfig

\* load_config lets the TypeError of validate and the AttributeError of
\* from_dict on a non-object escape (only JSONDecodeError and KeyError are
\* caught)
load_raises(f) ==
    \/ f.kind = "array"
    \/ f.kind = "json" /\ CallValidate(from_dict(f.obj)).raised

\* _config after load_config: from_dict on a non-object raises before _config
\* is assigned
loaded_config(c, f) ==
    IF f.kind = "array" THEN c ELSE [set |-> TRUE, rec |-> load_config(f)]

\* save_config, first file-system step: open(temp_path, 'w')
\* A faulty variant of save_open that truncates the settings file itself
\* instead of a sibling temporary file; C7 must tell the two apart.
save_open_in_place(f, t) == [file |-> Partial, tmp |-> t]

save_open(f, t) == [file |-> f, tmp |-> Partial]

\* save_config, second step: json.dump(config.to_dict(), f) into the temp file
save_write(f, t, config) == [file |-> f, tmp |-> Json(to_dict(config))]

\* save_config up to the open of the temp file: validate, then back up
\* A faulty variant of save_enter that makes the backup before it looks at
\* the validation result; C4 must tell the two apart.
save_enter_backup_first(config, call, key, val) ==
    IF ~Valid(config)
    THEN /\ ret' = Ret(call, FALSE, key, val)
         /\ backups' = _backup_config(backups, file, fileMtime, clock)
         /\ UNCHANGED <<file, fileMtime, tmp, io>>
    ELSE /\ backups' = _backup_config(backups, file, fileMtime, clock)
         /\ file' = save_open(file, tmp).file
         /\ tmp' = save_open(file, tmp).tmp
         /\ io' = [NoIo EXCEPT !.op = "save", !.step = "open", !.new = config,
                               !.old = file, !.call = call, !.key = key, !.val = val]
         /\ UNCHANGED <<fileMtime, ret>>

save_enter(config, call, key, val) ==
    IF ~Valid(config)
    THEN /\ ret' = Ret(call, FALSE, key, val)
         /\ UNCHANGED <<file, fileMtime, tmp, backups, io>>
    ELSE /\ backups' = _backup_config(backups, file, fileMtime, clock)
         /\ file' = save_open(file, tmp).file
         /\ tmp' = save_open(file, tmp).tmp
         /\ io' = [NoIo EXCEPT !.op = "save", !.step = "open", !.new = config,
                               !.old = file, !.call = call, !.key = key, !.val = val]
         /\ UNCHANGED <<fileMtime, ret>>

\* records handed to save_config by a direct caller
InputRecords ==
    {TidalNGConfig,
     [TidalNGConfig EXCEPT !.quality_audio = S("HIGH"), !.retry_attempts = I(0)],
     [TidalNGConfig EXCEPT !.quality_audio = S("ULTRA")],
     [TidalNGConfig EXCEPT !.downloads_concurrent_max = I(11), !.download_base_path = S("")],
     [TidalNGConfig EXCEPT !.timeout_seconds = S("300")]}

save_config(config) ==
    /\ CanCmd
    /\ cmds' = cmds + 1
    /\ save_enter(config, "save_config", "", I(0))
    /\ UNCHANGED <<cfg, clock, live, quota, dirs, pipe, hand, calls, probe>>
    /\ UNCHANGED sessVars

\* save_config(): config is None, so self._config or a fresh TidalNGConfig
save_config_none ==
    /\ CanCmd
    /\ cmds' = cmds + 1
    /\ save_enter(IF cfg.set THEN cfg.rec ELSE TidalNGConfig, "save_config", "", I(0))
    /\ UNCHANGED <<cfg, clock, live, quota, dirs, pipe, hand, calls, probe>>
    /\ UNCHANGED sessVars

\* json.dump(config.to_dict(), f): a replaced to_dict is not callable
save_dump ==
    /\ io.op = "save" /\ io.step = "open"
    /\ IF "to_dict" \in DOMAIN io.new
       THEN /\ ret' = Ret(io.call, FALSE, io.key, io.val)
            /\ io' = NoIo
            /\ UNCHANGED <<file, tmp>>
       ELSE /\ file' = save_write(file, tmp, io.new).file
            /\ tmp' = save_write(file, tmp, io.new).tmp
            /\ io' = [io EXCEPT !.step = "written"]
            /\ UNCHANGED ret
    /\ UNCHANGED <<fileMtime, backups, cfg, clock, cmds, live, quota, dirs, pipe, hand,
                   calls, probe>>
    /\ UNCHANGED sessVars

\* temp_path.replace(settings_path); self._config = config; return True
save_replace ==
    /\ io.op = "save" /\ io.step = "written"
    /\ file' = tmp
    /\ fileMtime' = NewMtime
    /\ tmp' = Absent
    /\ cfg' = [set |-> TRUE, rec |-> io.new]
    /\ ret' = Ret(io.call, TRUE, io.key, io.val)
    /\ io' = NoIo
    /\ UNCHANGED <<backups, clock, cmds, live, quota, dirs, pipe, hand, calls, probe>>
    /\ UNCHANGED sessVars

\* a command handler calling load_config (get, show, validate, status)
LoadConfig ==
    /\ CanCmd
    /\ cmds' = cmds + 1
    /\ cfg' = loaded_config(cfg, file)
    /\ ret' = [Ret("load_config", ~load_raises(file), "", I(0))
                  EXCEPT !.raised = load_raises(file)]
    /\ UNCHANGED <<file, fileMtime, tmp, backups, clock, io, live, quota, dirs, pipe,
                   hand, calls, probe>>
    /\ UNCHANGED sessVars

\* (key, value) pairs of the set command
SetInputs ==
    {<<"quality_audio", S("HIGH")>>, <<"quality_audio", S("ULTRA")>>,
     <<"retry_attempts", I(5)>>, <<"retry_attempts", I(50)>>,
     <<"skip_existing", B(FALSE)>>, <<"colour", S("blue")>>}

set_value(key, value) ==
    /\ CanCmd
    /\ cmds' = cmds + 1
    /\ LET loaded == IF cfg.set THEN cfg.rec ELSE load_config(file) IN
       IF ~cfg.set /\ load_raises(file)
       THEN /\ cfg' = loaded_config(cfg, file)
            /\ ret' = [Ret("set_value", FALSE, key, value) EXCEPT !.raised = TRUE]
            /\ UNCHANGED <<file, fileMtime, tmp, backups, io>>
       ELSE IF ~_validate_value(key, value)
       THEN /\ cfg' = [set |-> TRUE, rec |-> loaded]
            /\ ret' = Ret("set_value", FALSE, key, value)
            /\ UNCHANGED <<file, fileMtime, tmp, backups, io>>
       ELSE /\ cfg' = [set |-> TRUE, rec |-> SetAttr(loaded, key, value)]
            /\ save_enter(SetAttr(loaded, key, value), "set_value", key, value)
    /\ UNCHANGED <<clock, live, quota, dirs, pipe, hand, calls, probe>>
    /\ UNCHANGED sessVars

PresetNames == DOMAIN get_presets

\* A faulty variant of apply_preset that saves the defaults under a name it does
\* not know; C26 must tell the two apart.
apply_preset_falls_back(preset_name) ==
    /\ CanCmd
    /\ cmds' = cmds + 1
    /\ IF preset_name \notin PresetNames
       THEN save_enter(TidalNGConfig, "apply_preset", preset_name, I(0))
       ELSE save_enter(get_presets[preset_name], "apply_preset", preset_name, I(0))
    /\ UNCHANGED <<cfg, clock, live, quota, dirs, pipe, hand, calls, probe>>
    /\ UNCHANGED sessVars

apply_preset(preset_name) ==
    /\ CanCmd
    /\ cmds' = cmds + 1
    /\ IF preset_name \notin PresetNames
       THEN /\ ret' = Ret("apply_preset", FALSE, preset_name, I(0))
            /\ UNCHANGED <<file, fileMtime, tmp, backups, io>>
       ELSE save_enter(get_presets[preset_name], "apply_preset", preset_name, I(0))
    /\ UNCHANGED <<cfg, clock, live, quota, dirs, pipe, hand, calls, probe>>
    /\ UNCHANGED sessVars

reset_to_defaults ==
    /\ CanCmd
    /\ cmds' = cmds + 1
    /\ save_enter(TidalNGConfig, "reset_to_defaults", "", I(0))
    /\ UNCHANGED <<cfg, clock, live, quota, dirs, pipe, hand, calls, probe>>
    /\ UNCHANGED sessVars

(***************************************************************************)
(* Commands of tidal_ng_enhanced_commands.py that touch the files.         *)
(***************************************************************************)
\* /tidal_ng_backup
tidal_ng_backup ==
    /\ CanCmd
    /\ cmds' = cmds + 1
    /\ backups' = _backup_config(backups, file, fileMtime, clock)
    /\ ret' = Ret("backup", file.kind # "absent", "", I(0))
    /\ UNCHANGED <<file, fileMtime, tmp, cfg, clock, io, live, quota, dirs, pipe, hand,
                   calls, probe>>
    /\ UNCHANGED sessVars

\* /tidal_ng_restore <name>: shutil.copy2 opens the settings file for writing
\* (truncating it) and then copies the bytes and the file times
tidal_ng_restore(name) ==
    /\ CanCmd
    /\ cmds' = cmds + 1
    /\ IF name \notin DOMAIN backups
       THEN /\ ret' = Ret("restore", FALSE, "", I(name))
            /\ UNCHANGED <<file, io>>
       ELSE /\ file' = Partial
            /\ io' = [NoIo EXCEPT !.op = "copy", !.step = "open", !.src = name,
                                  !.old = file, !.call = "restore"]
            /\ UNCHANGED ret
    /\ UNCHANGED <<fileMtime, tmp, backups, cfg, clock, live, quota, dirs, pipe, hand,
                   calls, probe>>
    /\ UNCHANGED sessVars

restore_copy ==
    /\ io.op = "copy"
    /\ file' = backups[io.src].content
    /\ fileMtime' = backups[io.src].mtime
    /\ ret' = Ret("restore", TRUE, "", I(io.src))
    /\ io' = NoIo
    /\ UNCHANGED <<tmp, backups, cfg, clock, cmds, live, quota, dirs, pipe, hand, calls, probe>>
    /\ UNCHANGED sessVars

\* backup_files after sort(key=st_mtime, reverse=True): the names, newest
\* modification time first; files of equal st_mtime stay in the order of the
\* directory listing, which is arbitrary
sorted_backups(bk) ==
    {order \in [1..Cardinality(DOMAIN bk) -> DOMAIN bk] :
        /\ \A n \in DOMAIN bk : \E i \in DOMAIN order : order[i] = n
        /\ \A i, j \in DOMAIN order : i < j => bk[order[i]].mtime >= bk[order[j]].mtime}

\* the directory with the given names unlinked
unlinked(bk, names) == [n \in (DOMAIN bk) \ names |-> bk[n]]

\* cleanup_old_backups(keep_count): every unlink succeeds
cleanup_old_backups(keep_count) ==
    /\ CanCmd
    /\ cmds' = cmds + 1
    /\ \E order \in sorted_backups(backups) :
          backups' = unlinked(backups,
                              {order[i] : i \in (keep_count + 1)..Len(order)})
    /\ ret' = Ret("cleanup", TRUE, "", I(keep_count))
    /\ UNCHANGED <<file, fileMtime, tmp, cfg, clock, io, live, quota, dirs, pipe, hand,
                   calls, probe>>
    /\ UNCHANGED sessVars

\* cleanup_old_backups(keep_count): the unlink of the backup at position j
\* raises (OSError); the except around the whole sweep logs it
cleanup_unlink_fault(keep_count) ==
    /\ CanCmd
    /\ cmds' = cmds + 1
    /\ \E order \in sorted_backups(backups) :
          \E j \in (keep_count + 1)..Len(order) :
              backups' = unlinked(backups,
                                  {order[i] : i \in (keep_count + 1)..(j - 1)})
    /\ ret' = Ret("cleanup", FALSE, "", I(keep_count))
    /\ UNCHANGED <<file, fileMtime, tmp, cfg, clock, io, live, quota, dirs, pipe, hand,
                   calls, probe>>
    /\ UNCHANGED sessVars

\* a second of wall-clock time passes
Tick ==
    /\ clock < MaxClock
    /\ clock' = clock + 1
    /\ UNCHANGED <<file, fileMtime, tmp, backups, cfg, io, ret, cmds, live, quota, dirs,
                   pipe, hand, calls, probe>>
    /\ UNCHANGED sessVars

(***************************************************************************)
(* TidalNGDownloader                                                       *)
(***************************************************************************)
\* user['user_id'] of the request a session serves
user_id(s) == 1

\* _create_temp_download_path: DOWNLOAD_BASE_DIR/<user_id>/tidal_ng_<int(time.time())>
_create_temp_download_path(uid, now) ==
    "downloads/" \o ToString(uid) \o "/tidal_ng_" \o ToString(now)

\* int(value) for the values an option can carry
DigitStrings == [s \in {"5"} |-> 5]
PyInt(x) ==
    IF IsInt(x) THEN [raised |-> FALSE, v |-> Num(x)]
    ELSE IF x.v \in DOMAIN DigitStrings THEN [raised |-> FALSE, v |-> DigitStrings[x.v]]
    ELSE [raised |-> TRUE, v |-> 0]

Min(a, b) == IF a < b THEN a ELSE b
Max(a, b) == IF a > b THEN a ELSE b

option_mapping ==
    [quality |-> "quality_audio", video_quality |-> "quality_video",
     lyrics |-> "lyrics_embed", cover |-> "metadata_cover_embed",
     playlist |-> "playlist_create", concurrent |-> "downloads_concurrent_max",
     flac |-> "extract_flac", video |-> "video_download",
     convert |-> "video_convert_mp4", skip |-> "skip_existing"]
FlagOptions == {"lyrics", "cover", "playlist", "flac", "video", "convert", "skip"}

\* A faulty variant of parse_option that converts 'concurrent' without clamping
\* it; C33 must tell the two apart.
parse_option_unclamped(key, value) ==
    IF key \in FlagOptions THEN PyBool(value)
    ELSE IF key = "concurrent" THEN I(PyInt(value).v)
    ELSE value

\* the value _parse_options stores for one recognised option
parse_option(key, value) ==
    IF key \in FlagOptions THEN PyBool(value)
    ELSE IF key = "concurrent" THEN I(Max(1, Min(10, PyInt(value).v)))
    ELSE value

\* _parse_options raises (ValueError of int) on a non-numeric 'concurrent'
parse_raises(options) ==
    "concurrent" \in DOMAIN options /\ PyInt(options["concurrent"]).raised

_parse_options(options) ==
    LET known == {k \in DOMAIN options : k \in DOMAIN option_mapping} IN
    [sk \in {option_mapping[k] : k \in known} |->
        LET k == CHOOSE k \in known : option_mapping[k] = sk IN
        parse_option(k, options[k])]

\* the settings forced for every session
forced_settings(download_path) ==
    [download_base_path |-> S(download_path),
     path_binary_ffmpeg |-> S("/usr/bin/ffmpeg"),
     downloads_concurrent_max |-> I(3),
     downloads_simultaneous_per_track_max |-> I(1),
     skip_existing |-> B(TRUE),
     lyrics_embed |-> B(TRUE),
     metadata_cover_embed |-> B(TRUE),
     extract_flac |-> B(TRUE),
     playlist_create |-> B(TRUE),
     video_download |-> B(TRUE),
     video_convert_mp4 |-> B(TRUE)]

\* A faulty variant of new_settings that applies the forced settings after the
\* caller's options; C32 must tell the two apart.
new_settings_forced_last(original, download_path, options) ==
    LET chosen == IF DOMAIN options = {} THEN original
                  ELSE Update(original, _parse_options(options)) IN
    Update(chosen, forced_settings(download_path))

\* new_settings of _apply_download_settings
new_settings(original, download_path, options) ==
    LET forced == Update(original, forced_settings(download_path)) IN
    IF DOMAIN options = {} THEN forced ELSE Update(forced, _parse_options(options))

\* A faulty variant of _backup_settings that forgets what it read; C1 must
\* tell the two apart.
_backup_settings_forgets(f) == EmptyObj

\* _backup_settings: the parsed file, or {} when it is missing or does not parse
_backup_settings(f) == IF f.kind = "json" THEN f.obj ELSE EmptyObj

\* options a caller passes to start_tidal_ng_enhanced
OptionSets ==
    {EmptyObj,
     [concurrent |-> I(50), skip |-> I(0), colour |-> S("blue")],
     [quality |-> S("ULTRA")],
     [concurrent |-> S("many")]}

\* files the child leaves in the download directory: [kind, album, ok], where ok
\* says whether the metadata extractor succeeds on the file
Audio(album, ok) == [kind |-> "audio", album |-> album, ok |-> ok]
Video(ok) == [kind |-> "video", album |-> "", ok |-> ok]
Hidden == [kind |-> "hidden", album |-> "", ok |-> FALSE]
FileSets ==
    {<< >>, <<Hidden>>, <<Audio("X", TRUE)>>, <<Video(TRUE)>>,
     <<Audio("X", TRUE), Audio("X", TRUE)>>, <<Audio("X", TRUE), Audio("Y", TRUE)>>,
     <<Audio("X", FALSE)>>, <<Audio("X", TRUE), Video(FALSE)>>}

\* _collect_downloaded_files: hidden and .tmp files are skipped
_collect_downloaded_files(produced) ==
    SelectSeq(produced, LAMBDA f : f.kind \notin {"hidden", "tmp"})

\* the metadata of one file, tagged with its path (its place in the list of
\* files) and with the provider
Item(f, path) ==
    [kind |-> f.kind, album |-> f.album, filepath |-> path, provider |-> "Tidal NG"]

\* A faulty variant of _extract_metadata with the try around the whole loop: one
\* extractor that raises loses every item; C31 must tell the two apart.
_extract_metadata_all_or_nothing(files) ==
    IF \E i \in 1..Len(files) : ~files[i].ok THEN << >>
    ELSE [i \in 1..Len(files) |-> Item(files[i], i)]

\* _extract_metadata: one item per file whose extractor did not raise
_extract_metadata(files) ==
    LET done == SelectSeq([i \in 1..Len(files) |-> i], LAMBDA i : files[i].ok) IN
    [k \in 1..Len(done) |-> Item(files[done[k]], done[k])]

\* the album label of an item whose metadata has no "album" key
NoLabel == "<missing>"
\* item.get("album", "")
item_album(item) == IF item.album = NoLabel THEN "" ELSE item.album

\* A faulty variant of _determine_content_type that takes one shared label for an
\* album even when the label is empty; C23 must tell the two apart.
_determine_content_type_any_label(items, files) ==
    IF items = << >> THEN "unknown"
    ELSE IF (\E i \in 1..Len(files) : files[i].kind = "video") /\ Len(items) = 1
    THEN "video"
    ELSE IF Len(items) > 1
    THEN LET albums == {item_album(items[i]) : i \in 1..Len(items)} IN
         IF Cardinality(albums) = 1 THEN "album" ELSE "playlist"
    ELSE "track"

_determine_content_type(items, files) ==
    IF items = << >> THEN "unknown"
    ELSE IF (\E i \in 1..Len(files) : files[i].kind = "video") /\ Len(items) = 1
    THEN "video"
    ELSE IF Len(items) > 1
    THEN LET albums == {item_album(items[i]) : i \in 1..Len(items)} IN
         IF Cardinality(albums) = 1 /\ albums # {""} THEN "album" ELSE "playlist"
    ELSE "track"

(***************************************************************************)
(* Progress translation: _parse_progress on one line of the child's        *)
(* standard output. A line is the sequence of its characters.              *)
(***************************************************************************)
\* "w in output"
Contains(output, w) ==
    \E i \in 1..(Len(output) - Len(w) + 1) : SubSeq(output, i, i + Len(w) - 1) = w

\* the if/elif chain of _parse_progress, in its order: the keywords tested and
\* the stage reported
stage_patterns ==
    <<[stage |-> "Downloading...",
      keys |-> {<<"D", "o", "w", "n", "l", "o", "a", "d", "i", "n", "g">>, <<"D", "o", "w", "n", "l", "o", "a", "d">>}],
     [stage |-> "Processing...",
      keys |-> {<<"P", "r", "o", "c", "e", "s", "s", "i", "n", "g">>, <<"P", "r", "o", "c", "e", "s", "s">>}],
     [stage |-> "Converting...",
      keys |-> {<<"C", "o", "n", "v", "e", "r", "t", "i", "n", "g">>, <<"C", "o", "n", "v", "e", "r", "t">>}],
     [stage |-> "Extracting...",
      keys |-> {<<"E", "x", "t", "r", "a", "c", "t", "i", "n", "g">>, <<"E", "x", "t", "r", "a", "c", "t">>}],
     [stage |-> "Download complete!",
      keys |-> {<<"C", "o", "m", "p", "l", "e", "t", "e">>, <<"F", "i", "n", "i", "s", "h", "e", "d">>, <<"S", "u", "c", "c", "e", "s", "s">>}],
     [stage |-> "Error: ",
      keys |-> {<<"E", "r", "r", "o", "r">>, <<"F", "a", "i", "l", "e", "d">>}]>>

Digits == {"0", "1", "2", "3", "4", "5", "6", "7", "8", "9"}
DigitValue ==
    "0" :> 0 @@ "1" :> 1 @@ "2" :> 2 @@ "3" :> 3 @@ "4" :> 4 @@
    "5" :> 5 @@ "6" :> 6 @@ "7" :> 7 @@ "8" :> 8 @@ "9" :> 9

\* int(group): the decimal value of a run of digits
RECURSIVE PyIntDigits(_)
PyIntDigits(ds) ==
    IF ds = << >> THEN 0
    ELSE 10 * PyIntDigits(SubSeq(ds, 1, Len(ds) - 1)) + DigitValue[ds[Len(ds)]]

\* \d+ matched greedily from position i: the last position of the run of digits
RunEnd(output, i) ==
    CHOOSE j \in i..Len(output) :
        /\ \A k \in i..j : output[k] \in Digits
        /\ j = Len(output) \/ output[j + 1] \notin Digits

\* a progress event handed to the reporter: set_stage(text) or
\* update_download(percent=a) or update_download(tracks_done=a, total_tracks=b)
Event(ev, text, arg, a, b) == [ev |-> ev, text |-> text, arg |-> arg, a |-> a, b |-> b]
StageEvent(text, arg) == Event("stage", text, arg, 0, 0)
PercentEvent(percent) == Event("percent", "", << >>, percent, 0)
TracksEvent(current, total) == Event("tracks", "", << >>, current, total)

\* output[:50]
Head50(output) == SubSeq(output, 1, Min(Len(output), 50))

\* A faulty variant of stage_events with a chain of plain ifs: every branch
\* whose test holds reports its stage; C27 must tell the two apart.
stage_events_every_branch(output) ==
    LET hits == {g \in 1..Len(stage_patterns) :
                    \E w \in stage_patterns[g].keys : Contains(output, w)}
        stages == [g \in 1..Len(stage_patterns) |->
                      StageEvent(stage_patterns[g].stage,
                                 IF stage_patterns[g].stage = "Error: "
                                 THEN Head50(output) ELSE << >>)] IN
    SelectSeq(stages, LAMBDA e : \E g \in hits : stages[g] = e)

\* the stage the if/elif chain reports: that of the first branch whose test holds
stage_events(output) ==
    LET hits == {g \in 1..Len(stage_patterns) :
                    \E w \in stage_patterns[g].keys : Contains(output, w)} IN
    IF hits = {} THEN << >>
    ELSE LET g == CHOOSE h \in hits : \A k \in hits : h <= k IN
         <<StageEvent(stage_patterns[g].stage,
                      IF stage_patterns[g].stage = "Error: " THEN Head50(output) ELSE << >>)>>

\* re.search(r'(\d+)%', output): the leftmost match
percent_events(output) ==
    LET starts == {i \in 1..Len(output) :
                      /\ output[i] \in Digits
                      /\ RunEnd(output, i) < Len(output)
                      /\ output[RunEnd(output, i) + 1] = "%"} IN
    IF starts = {} THEN << >>
    ELSE LET i == CHOOSE h \in starts : \A k \in starts : h <= k IN
         <<PercentEvent(PyIntDigits(SubSeq(output, i, RunEnd(output, i))))>>

\* re.search(r'(\d+)/(\d+)', output): the leftmost match
tracks_events(output) ==
    LET starts == {i \in 1..Len(output) :
                      /\ output[i] \in Digits
                      /\ RunEnd(output, i) + 2 <= Len(output)
                      /\ output[RunEnd(output, i) + 1] = "/"
                      /\ output[RunEnd(output, i) + 2] \in Digits} IN
    IF starts = {} THEN << >>
    ELSE LET i == CHOOSE h \in starts : \A k \in starts : h <= k
             j == RunEnd(output, i) + 2 IN
         <<TracksEvent(PyIntDigits(SubSeq(output, i, RunEnd(output, i))),
                       PyIntDigits(SubSeq(output, j, RunEnd(output, j))))>>

\* the calls _parse_progress makes on the reporter, in their order
_parse_progress(output) ==
    stage_events(output) \o percent_events(output) \o tracks_events(output)

\* a call a monitoring task makes on the reporter, with the stream and the
\* number of the line it comes from
Call(stream, n, e) == [stream |-> stream, line |-> n, call |-> e]

NoOutcome ==
    [status |-> "none", success |-> FALSE, error |-> "", kind |-> "unknown",
     nfiles |-> 0, nmeta |-> 0, quality |-> S("LOSSLESS")]
Failed(error, nfiles) ==
    [NoOutcome EXCEPT !.status = "failed", !.error = error, !.nfiles = nfiles]
Cancelled ==
    [NoOutcome EXCEPT !.status = "cancelled", !.error = "Download cancelled"]

\* what a child that has not read the settings file yet holds
NotRead == [kind |-> "none", obj |-> EmptyObj]
NoChild == [st |-> "none", code |-> 0, term |-> 0, saw |-> NotRead]
\* a drain that has read no line yet
NoHand == [n |-> 0, calls |-> << >>]
NoMon == [out |-> "idle", err |-> "idle", poll |-> "idle", seen |-> FALSE]
NoWork == [files |-> << >>, meta |-> << >>, collected |-> FALSE, exit |-> "none",
           entry |-> Absent]

\* the awaits of download() at which the task can be cancelled
AwaitPoints == {"stage0", "gather", "wait", "stage1", "extract", "stage2"}
\* the awaits of download() that can raise an ordinary exception to download()
RaisePoints == {"stage0", "stage1", "stage2"}

\* download() returns result: start_tidal_ng_enhanced goes on to the failure
\* report or to the history record and the upload
Return(s, result) ==
    /\ outcome' = [outcome EXCEPT ![s] = result]
    /\ pc' = [pc EXCEPT ![s] = IF result.success THEN "upload" ELSE "report"]

\* async with TidalNGDownloader() ... download() up to its first await:
\* __aenter__ snapshots the file, _apply_download_settings makes the temporary
\* directory (mkdir, exist_ok), computes the overlay and opens the settings file
\* for writing, which truncates it
SessionEnter(s, options) ==
    /\ Quiet
    /\ s \in live
    /\ pc[s] = "idle"
    /\ LET snapshot == _backup_settings(file)
           path == _create_temp_download_path(user_id(s), clock) IN
       /\ orig' = [orig EXCEPT ![s] = [some |-> TRUE, obj |-> snapshot]]
       /\ IF parse_raises(options)
          THEN /\ Return(s, Failed("exception", 0))
               /\ UNCHANGED <<file, io, overlay>>
          ELSE /\ overlay' = [overlay EXCEPT ![s] = new_settings(snapshot, path, options)]
               /\ file' = Partial
               /\ io' = [NoIo EXCEPT !.op = "overlay", !.step = "open", !.s = s,
                                     !.old = file]
               /\ pc' = [pc EXCEPT ![s] = "applying"]
               /\ UNCHANGED outcome
    /\ work' = [work EXCEPT ![s].entry = file]
    /\ dirs' = dirs \cup {_create_temp_download_path(user_id(s), clock)}
    /\ UNCHANGED <<fileMtime, tmp, backups, cfg, clock, ret, cmds, live, quota, pipe,
                   hand, calls, probe>>
    /\ UNCHANGED <<cancel, child, mon>>

\* json.dump(new_settings, f, indent=4) completes
overlay_dump(s) ==
    /\ io.op = "overlay" /\ io.s = s
    /\ file' = Json(overlay[s])
    /\ fileMtime' = NewMtime
    /\ io' = NoIo
    /\ pc' = [pc EXCEPT ![s] = "stage0"]
    /\ UNCHANGED <<tmp, backups, cfg, clock, ret, cmds, live, quota, dirs, pipe, hand,
                   calls, probe>>
    /\ UNCHANGED <<orig, overlay, cancel, child, mon, work, outcome>>

\* the write of the overlay raises part-way (OSError): download() turns the
\* exception into a failed result
overlay_fault(s) ==
    /\ io.op = "overlay" /\ io.s = s
    /\ io' = NoIo
    /\ fileMtime' = NewMtime
    /\ Return(s, Failed("exception", 0))
    /\ UNCHANGED <<file, tmp, backups, cfg, clock, ret, cmds, live, quota, dirs, pipe,
                   hand, calls, probe>>
    /\ UNCHANGED <<orig, overlay, cancel, child, mon, work>>

\* _execute_download: create_subprocess_exec, then the three monitoring tasks
Spawn(s) ==
    /\ Quiet
    /\ pc[s] = "stage0"
    /\ child' = [child EXCEPT ![s] = [NoChild EXCEPT !.st = "running"]]
    /\ mon' = [mon EXCEPT ![s] = [out |-> "run", err |-> "run", poll |-> "run",
                                  seen |-> FALSE]]
    /\ pc' = [pc EXCEPT ![s] = "gather"]
    /\ UNCHANGED <<file, fileMtime, tmp, backups, cfg, clock, io, ret, cmds, live, quota,
                   dirs, pipe, hand, calls, probe>>
    /\ UNCHANGED <<orig, overlay, cancel, work, outcome>>

\* the child, a process of its own, reads the settings file as it starts up:
\* it finds whatever the file holds at that moment
ChildRead(s) ==
    /\ child[s].st = "running"
    /\ child[s].saw = NotRead
    /\ child' = [child EXCEPT ![s].saw = file]
    /\ UNCHANGED <<file, fileMtime, tmp, backups, cfg, clock, io, ret, cmds, live, quota,
                   dirs, pipe, hand, calls, probe>>
    /\ UNCHANGED <<pc, orig, overlay, cancel, mon, work, outcome>>

\* the child exits: by itself with 0 or 1, or killed by a termination request
ExitCodes(c) == IF c.term > 0 THEN {0, 1, -15} ELSE {0, 1}
ChildExit(s, code) ==
    /\ child[s].st = "running"
    /\ code \in ExitCodes(child[s])
    /\ child' = [child EXCEPT ![s].st = "exited", ![s].code = code]
    /\ UNCHANGED <<file, fileMtime, tmp, backups, cfg, clock, io, ret, cmds, live, quota,
                   dirs, pipe, hand, calls, probe>>
    /\ UNCHANGED <<pc, orig, overlay, cancel, mon, work, outcome>>

\* _monitor_stdout / _monitor_stderr: readline returns b'' once the child is gone
drain_eof(s, stream) ==
    /\ Quiet
    /\ mon[s][stream] = "run"
    /\ child[s].st = "exited"
    /\ pipe[s][stream] = << >> /\ hand[s][stream].calls = << >>
    /\ mon' = [mon EXCEPT ![s][stream] = "done"]
    /\ UNCHANGED <<file, fileMtime, tmp, backups, cfg, clock, io, ret, cmds, live, quota,
                   dirs, pipe, hand, calls, probe>>
    /\ UNCHANGED <<pc, orig, overlay, cancel, child, work, outcome>>

\* the child writes one line to its standard output or standard error
ChildWrite(s, stream, line) ==
    /\ child[s].st = "running"
    /\ hand[s][stream].n + Len(pipe[s][stream]) < MaxLines
    /\ pipe' = [pipe EXCEPT ![s][stream] = Append(@, line)]
    /\ UNCHANGED <<file, fileMtime, tmp, backups, cfg, clock, io, ret, cmds, live, quota,
                   dirs, hand, calls, probe>>
    /\ UNCHANGED <<pc, orig, overlay, cancel, child, mon, work, outcome>>

\* the reporter calls a drain makes for one line: _monitor_stdout translates
\* it, _monitor_stderr reports a warning with its first 50 characters
line_calls(stream, output) ==
    IF stream = "out" THEN _parse_progress(output)
    ELSE <<StageEvent("Warning: ", Head50(output))>>

\* A faulty variant of drain_line that starts the translation of a line as a
\* task of its own and reads on: the calls of a later line can overtake those
\* of an earlier one; C30 must tell the two apart.
drain_line_detached(s, stream) ==
    /\ Quiet
    /\ mon[s][stream] = "run"
    /\ pipe[s][stream] # << >>
    /\ LET n == hand[s][stream].n + 1
           new == line_calls(stream, Head(pipe[s][stream])) IN
       hand' = [hand EXCEPT ![s][stream] =
                   [n |-> n,
                    calls |-> [i \in 1..Len(new) |-> Call(stream, n, new[i])] \o @.calls]]
    /\ pipe' = [pipe EXCEPT ![s][stream] = Tail(@)]
    /\ UNCHANGED <<file, fileMtime, tmp, backups, cfg, clock, io, ret, cmds, live, quota,
                   dirs, calls, probe>>
    /\ UNCHANGED <<pc, orig, overlay, cancel, child, mon, work, outcome>>

\* line = await stream.readline(): a drain that has made every call of its last
\* line reads the next one
drain_line(s, stream) ==
    /\ Quiet
    /\ mon[s][stream] = "run"
    /\ hand[s][stream].calls = << >>
    /\ pipe[s][stream] # << >>
    /\ LET n == hand[s][stream].n + 1
           new == line_calls(stream, Head(pipe[s][stream])) IN
       hand' = [hand EXCEPT ![s][stream] =
                   [n |-> n, calls |-> [i \in 1..Len(new) |-> Call(stream, n, new[i])]]]
    /\ pipe' = [pipe EXCEPT ![s][stream] = Tail(@)]
    /\ UNCHANGED <<file, fileMtime, tmp, backups, cfg, clock, io, ret, cmds, live, quota,
                   dirs, calls, probe>>
    /\ UNCHANGED <<pc, orig, overlay, cancel, child, mon, work, outcome>>

\* await progress_reporter.set_stage(...) / update_download(...): the next call
\* of the line in hand is made and returns
reporter_call(s, stream) ==
    /\ Quiet
    /\ mon[s][stream] = "run"
    /\ hand[s][stream].calls # << >>
    /\ calls' = [calls EXCEPT ![s] = Append(@, Head(hand[s][stream].calls))]
    /\ hand' = [hand EXCEPT ![s][stream].calls = Tail(@)]
    /\ UNCHANGED <<file, fileMtime, tmp, backups, cfg, clock, io, ret, cmds, live, quota,
                   dirs, pipe, probe>>
    /\ UNCHANGED <<pc, orig, overlay, cancel, child, mon, work, outcome>>

\* A faulty variant of drain_raise without the try/except around gather: the
\* drain's exception leaves _execute_download and reaches download(); C22 must
\* tell the two apart.
drain_raise_escapes(s, stream) ==
    /\ Quiet
    /\ mon[s][stream] = "run"
    /\ mon' = [mon EXCEPT ![s][stream] = "raised"]
    /\ IF pc[s] = "gather"
       THEN Return(s, Failed("exception", 0))
       ELSE UNCHANGED <<pc, outcome>>
    /\ UNCHANGED <<file, fileMtime, tmp, backups, cfg, clock, io, ret, cmds, live, quota,
                   dirs, pipe, hand, calls, probe>>
    /\ UNCHANGED <<orig, overlay, cancel, child, work>>

\* a drain raises (decode error, over-long line, reporter failure): gather
\* re-raises it into _execute_download, which logs it and goes on to wait();
\* the other monitoring tasks keep running
drain_raise(s, stream) ==
    /\ Quiet
    /\ mon[s][stream] = "run"
    /\ mon' = [mon EXCEPT ![s][stream] = "raised"]
    /\ pc' = [pc EXCEPT ![s] = IF pc[s] = "gather" THEN "wait" ELSE pc[s]]
    /\ UNCHANGED <<file, fileMtime, tmp, backups, cfg, clock, io, ret, cmds, live, quota,
                   dirs, pipe, hand, calls, probe>>
    /\ UNCHANGED <<orig, overlay, cancel, child, work, outcome>>

\* A faulty variant of poll_cancel without the break: the poller goes on polling
\* after the termination request; C29 must tell the two apart.
poll_cancel_keeps_polling(s) ==
    /\ Quiet
    /\ mon[s].poll = "run"
    /\ child[s].st = "running"
    /\ cancel[s]
    /\ child' = [child EXCEPT ![s].term = child[s].term + 1]
    /\ mon' = [mon EXCEPT ![s].seen = TRUE]
    /\ calls' = [calls EXCEPT ![s] =
                     Append(@, Call("poll", 0, StageEvent("Download cancelled", << >>)))]
    /\ UNCHANGED <<file, fileMtime, tmp, backups, cfg, clock, io, ret, cmds, live, quota,
                   dirs, pipe, hand, probe>>
    /\ UNCHANGED <<pc, orig, overlay, cancel, work, outcome>>

\* _monitor_process sees cancel_event set: terminate(), set_stage and leave the
\* loop
poll_cancel(s) ==
    /\ Quiet
    /\ mon[s].poll = "run"
    /\ child[s].st = "running"
    /\ cancel[s]
    /\ child' = [child EXCEPT ![s].term = child[s].term + 1]
    /\ mon' = [mon EXCEPT ![s].poll = "done", ![s].seen = TRUE]
    /\ calls' = [calls EXCEPT ![s] =
                     Append(@, Call("poll", 0, StageEvent("Download cancelled", << >>)))]
    /\ UNCHANGED <<file, fileMtime, tmp, backups, cfg, clock, io, ret, cmds, live, quota,
                   dirs, pipe, hand, probe>>
    /\ UNCHANGED <<pc, orig, overlay, cancel, work, outcome>>

\* _monitor_process finds returncode set: the loop ends
poll_stop(s) ==
    /\ Quiet
    /\ mon[s].poll = "run"
    /\ child[s].st = "exited"
    /\ mon' = [mon EXCEPT ![s].poll = "done"]
    /\ UNCHANGED <<file, fileMtime, tmp, backups, cfg, clock, io, ret, cmds, live, quota,
                   dirs, pipe, hand, calls, probe>>
    /\ UNCHANGED <<pc, orig, overlay, cancel, child, work, outcome>>

\* asyncio.gather returns: all three tasks are done
gather_done(s) ==
    /\ Quiet
    /\ pc[s] = "gather"
    /\ mon[s].out = "done" /\ mon[s].err = "done" /\ mon[s].poll = "done"
    /\ pc' = [pc EXCEPT ![s] = "wait"]
    /\ UNCHANGED <<file, fileMtime, tmp, backups, cfg, clock, io, ret, cmds, live, quota,
                   dirs, pipe, hand, calls, probe>>
    /\ UNCHANGED <<orig, overlay, cancel, child, mon, work, outcome>>

\* A faulty variant of process_wait that does not look at the exit code and
\* always goes on to the collection of files; C21 must tell the two apart.
process_wait_ignores_code(s) ==
    /\ Quiet
    /\ pc[s] = "wait"
    /\ child[s].st = "exited"
    /\ pc' = [pc EXCEPT ![s] = "stage1"]
    /\ UNCHANGED <<file, fileMtime, tmp, backups, cfg, clock, io, ret, cmds, live, quota,
                   dirs, pipe, hand, calls, probe>>
    /\ UNCHANGED <<orig, overlay, cancel, child, mon, work, outcome>>

\* await process.wait(); return process.returncode == 0
process_wait(s) ==
    /\ Quiet
    /\ pc[s] = "wait"
    /\ child[s].st = "exited"
    /\ IF child[s].code = 0
       THEN pc' = [pc EXCEPT ![s] = "stage1"] /\ UNCHANGED outcome
       ELSE Return(s, Failed("Download process failed", 0))
    /\ UNCHANGED <<file, fileMtime, tmp, backups, cfg, clock, io, ret, cmds, live, quota,
                   dirs, pipe, hand, calls, probe>>
    /\ UNCHANGED <<orig, overlay, cancel, child, mon, work>>

\* files = self._collect_downloaded_files(download_path)
Collect(s, produced) ==
    /\ Quiet
    /\ pc[s] = "stage1"
    /\ LET files == _collect_downloaded_files(produced) IN
       /\ work' = [work EXCEPT ![s].files = files, ![s].collected = TRUE]
       /\ IF files = << >>
          THEN Return(s, Failed("No files were downloaded", 0))
          ELSE pc' = [pc EXCEPT ![s] = "extract"] /\ UNCHANGED outcome
    /\ UNCHANGED <<file, fileMtime, tmp, backups, cfg, clock, io, ret, cmds, live, quota,
                   dirs, pipe, hand, calls, probe>>
    /\ UNCHANGED <<orig, overlay, cancel, child, mon>>

\* metadata = await self._extract_metadata(files), then the content type and the
\* quality label, read from original_settings
Extract(s) ==
    /\ Quiet
    /\ pc[s] = "extract"
    /\ LET items == _extract_metadata(work[s].files) IN
       /\ work' = [work EXCEPT ![s].meta = items]
       /\ IF items = << >>
          THEN Return(s, Failed("Metadata extraction failed", Len(work[s].files)))
          ELSE pc' = [pc EXCEPT ![s] = "stage2"] /\ UNCHANGED outcome
    /\ UNCHANGED <<file, fileMtime, tmp, backups, cfg, clock, io, ret, cmds, live, quota,
                   dirs, pipe, hand, calls, probe>>
    /\ UNCHANGED <<orig, overlay, cancel, child, mon>>

quality_label(original) ==
    IF DOMAIN original # {} /\ "quality_audio" \in DOMAIN original
    THEN original["quality_audio"]
    ELSE S("LOSSLESS")

\* the successful return of download()
Complete(s) ==
    /\ Quiet
    /\ pc[s] = "stage2"
    /\ Return(s, [status |-> "completed", success |-> TRUE, error |-> "",
                  kind |-> _determine_content_type(work[s].meta, work[s].files),
                  nfiles |-> Len(work[s].files), nmeta |-> Len(work[s].meta),
                  quality |-> quality_label(orig[s].obj)])
    /\ UNCHANGED <<file, fileMtime, tmp, backups, cfg, clock, io, ret, cmds, live, quota,
                   dirs, pipe, hand, calls, probe>>
    /\ UNCHANGED <<orig, overlay, cancel, child, mon, work>>

\* monitoring tasks still pending when gather is cancelled are cancelled with it
CancelMon(m) ==
    [out |-> IF m.out = "run" THEN "cancelled" ELSE m.out,
     err |-> IF m.err = "run" THEN "cancelled" ELSE m.err,
     poll |-> IF m.poll = "run" THEN "cancelled" ELSE m.poll,
     seen |-> m.seen]

\* the task running download() is cancelled at an await: except CancelledError
TaskCancel(s) ==
    /\ Quiet
    /\ pc[s] \in AwaitPoints
    /\ Return(s, Cancelled)
    /\ mon' = [mon EXCEPT ![s] = IF pc[s] = "gather" THEN CancelMon(mon[s]) ELSE mon[s]]
    /\ UNCHANGED <<file, fileMtime, tmp, backups, cfg, clock, io, ret, cmds, live, quota,
                   dirs, pipe, hand, calls, probe>>
    /\ UNCHANGED <<orig, overlay, cancel, child, work>>

\* A faulty variant of Raise without the except Exception clause: the
\* exception leaves download() and no result is returned; C19 must tell the two
\* apart.
Raise_escapes(s) ==
    /\ Quiet
    /\ pc[s] \in RaisePoints
    /\ pc' = [pc EXCEPT ![s] = "report"]
    /\ UNCHANGED <<file, fileMtime, tmp, backups, cfg, clock, io, ret, cmds, live, quota,
                   dirs, pipe, hand, calls, probe>>
    /\ UNCHANGED <<orig, overlay, cancel, child, mon, work, outcome>>

\* an await of download() raises an ordinary exception: except Exception
Raise(s) ==
    /\ Quiet
    /\ pc[s] \in RaisePoints
    /\ Return(s, Failed("exception", 0))
    /\ UNCHANGED <<file, fileMtime, tmp, backups, cfg, clock, io, ret, cmds, live, quota,
                   dirs, pipe, hand, calls, probe>>
    /\ UNCHANGED <<orig, overlay, cancel, child, mon, work>>

\* an await of download() raises an exception made without arguments, whose
\* str() is empty: error=str(e)
raise_silent(s) ==
    /\ Quiet
    /\ pc[s] \in RaisePoints
    /\ Return(s, Failed("", 0))
    /\ UNCHANGED <<file, fileMtime, tmp, backups, cfg, clock, io, ret, cmds, live, quota,
                   dirs, pipe, hand, calls, probe>>
    /\ UNCHANGED <<orig, overlay, cancel, child, mon, work>>

\* another handler sets user['cancel_event'] (the signal is read by the poller
\* only, so it is set here no later than the child's exit)
SetCancel(s) ==
    /\ Quiet
    /\ pc[s] \in {"stage0", "gather", "wait"}
    /\ child[s].st # "exited"
    /\ ~cancel[s]
    /\ cancel' = [cancel EXCEPT ![s] = TRUE]
    /\ UNCHANGED <<file, fileMtime, tmp, backups, cfg, clock, io, ret, cmds, live, quota,
                   dirs, pipe, hand, calls, probe>>
    /\ UNCHANGED <<pc, orig, overlay, child, mon, work, outcome>>

\* the ways the body of the async with block is left: it returns, the upload or
\* the report raises, or the task is cancelled there
ExitWays == {"return", "exception", "cancelled"}

\* _restore_settings, first file-system step: open(TIDAL_DL_NG_SETTINGS_PATH, "w")
restore_open(f) == Partial

\* __aexit__ -> _restore_settings: the write of original_settings begins
SessionExit(s, how) ==
    /\ Quiet
    /\ pc[s] \in {"report", "upload"}
    /\ work' = [work EXCEPT ![s].exit = how]
    /\ IF orig[s].some
       THEN /\ file' = restore_open(file)
            /\ io' = [NoIo EXCEPT !.op = "restore", !.step = "open", !.s = s, !.old = file]
            /\ pc' = [pc EXCEPT ![s] = "restoring"]
       ELSE /\ pc' = [pc EXCEPT ![s] = "ended"]
            /\ UNCHANGED <<file, io>>
    /\ UNCHANGED <<fileMtime, tmp, backups, cfg, clock, ret, cmds, live, quota, dirs,
                   pipe, hand, calls, probe>>
    /\ UNCHANGED <<orig, overlay, cancel, child, mon, outcome>>

\* json.dump(self.original_settings, f, indent=4) completes
restore_dump(s) ==
    /\ io.op = "restore" /\ io.s = s
    /\ file' = Json(orig[s].obj)
    /\ fileMtime' = NewMtime
    /\ io' = NoIo
    /\ pc' = [pc EXCEPT ![s] = "ended"]
    /\ UNCHANGED <<tmp, backups, cfg, clock, ret, cmds, live, quota, dirs, pipe, hand,
                   calls, probe>>
    /\ UNCHANGED <<orig, overlay, cancel, child, mon, work, outcome>>

(***************************************************************************)
(* I/O faults of the writes to the settings file.                          *)
(***************************************************************************)
\* save_config: the dump into the temp file or the rename raises; the handler
\* logs it and returns False
save_fault ==
    /\ io.op = "save"
    /\ ret' = Ret(io.call, FALSE, io.key, io.val)
    /\ io' = NoIo
    /\ UNCHANGED <<file, fileMtime, tmp, backups, cfg, clock, cmds, live, quota, dirs,
                   pipe, hand, calls, probe>>
    /\ UNCHANGED sessVars

\* _restore_settings: the dump raises; the handler logs it, nothing is reported
restore_fault(s) ==
    /\ io.op = "restore" /\ io.s = s
    /\ fileMtime' = NewMtime
    /\ io' = NoIo
    /\ pc' = [pc EXCEPT ![s] = "ended"]
    /\ UNCHANGED <<file, tmp, backups, cfg, clock, ret, cmds, live, quota, dirs, pipe,
                   hand, calls, probe>>
    /\ UNCHANGED <<orig, overlay, cancel, child, mon, work, outcome>>

\* /tidal_ng_restore: copy2 raises part-way; the handler reports the failure
copy_fault ==
    /\ io.op = "copy"
    /\ fileMtime' = NewMtime
    /\ ret' = Ret("restore", FALSE, "", I(io.src))
    /\ io' = NoIo
    /\ UNCHANGED <<file, tmp, backups, cfg, clock, cmds, live, quota, dirs, pipe, hand,
                   calls, probe>>
    /\ UNCHANGED sessVars

(***************************************************************************)
(* Specifications.                                                         *)
(***************************************************************************)
NoBackups == [n \in {} |-> [content |-> Absent, mtime |-> 0]]
NoProbe == [fn |-> "none", arg |-> EmptyObj, done |-> FALSE, raised |-> FALSE,
            errors |-> << >>]

\* settings files found at start-up
InitObjs ==
    {to_dict(TidalNGConfig),
     Update(to_dict(get_presets["minimal"]), [token |-> S("secret")])}

InitStore ==
    /\ fileMtime = 1
    /\ dirs = {}
    /\ tmp = Absent
    /\ cfg = [set |-> FALSE, rec |-> TidalNGConfig]
    /\ clock = 0
    /\ io = NoIo
    /\ ret = NoRet
    /\ cmds = 0

InitSessions ==
    /\ pc = [s \in Sessions |-> "idle"]
    /\ pipe = [s \in Sessions |-> [out |-> << >>, err |-> << >>]]
    /\ hand = [s \in Sessions |-> [out |-> NoHand, err |-> NoHand]]
    /\ calls = [s \in Sessions |-> << >>]
    /\ orig = [s \in Sessions |-> [some |-> FALSE, obj |-> EmptyObj]]
    /\ overlay = [s \in Sessions |-> EmptyObj]
    /\ cancel = [s \in Sessions |-> FALSE]
    /\ child = [s \in Sessions |-> NoChild]
    /\ mon = [s \in Sessions |-> NoMon]
    /\ work = [s \in Sessions |-> NoWork]
    /\ outcome = [s \in Sessions |-> NoOutcome]

\* the store alone: configuration commands, no download session
InitStoreOnly ==
    /\ backups = NoBackups
    /\ file \in {Absent} \cup {Json(o) : o \in InitObjs}
    /\ InitStore /\ InitSessions /\ live = {} /\ quota = MaxCmds /\ probe = NoProbe

StoreNext ==
    \/ \E config \in InputRecords : save_config(config)
    \/ save_config_none
    \/ save_dump
    \/ save_replace
    \/ LoadConfig
    \/ \E kv \in SetInputs : set_value(kv[1], kv[2])
    \/ \E name \in PresetNames \cup {"turbo"} : apply_preset(name)
    \/ reset_to_defaults
    \/ tidal_ng_backup
    \/ \E name \in 0..MaxClock : tidal_ng_restore(name)
    \/ restore_copy
    \/ Tick

SpecStore == InitStoreOnly /\ [][StoreNext]_vars

\* one download session, with configuration commands issued while it runs
Init ==
    /\ backups = (0 :> [content |-> Json(to_dict(TidalNGConfig)), mtime |-> 0])
    /\ file \in {Absent, Json(Update(to_dict(get_presets["minimal"]), [token |-> S("secret")]))}
    /\ InitStore /\ InitSessions /\ live = {1} /\ quota = MaxSessCmds /\ probe = NoProbe

SessionCmds ==
    \/ \E kv \in {<<"quality_audio", S("HIGH")>>} : set_value(kv[1], kv[2])
    \/ save_dump
    \/ save_replace
    \/ tidal_ng_backup
    \/ \E name \in {0} : tidal_ng_restore(name)
    \/ restore_copy

SessionNext ==
    \E s \in Sessions :
        \/ \E options \in OptionSets : SessionEnter(s, options)
        \/ overlay_dump(s)
        \/ overlay_fault(s)
        \/ Spawn(s)
        \/ \E code \in {0, 1, -15} : ChildExit(s, code)
        \/ \E stream \in {"out", "err"} : drain_eof(s, stream)
        \/ \E stream \in {"out", "err"} : drain_raise(s, stream)
        \/ poll_cancel(s)
        \/ poll_stop(s)
        \/ gather_done(s)
        \/ process_wait(s)
        \/ \E produced \in FileSets : Collect(s, produced)
        \/ Extract(s)
        \/ Complete(s)
        \/ TaskCancel(s)
        \/ Raise(s)
        \/ SetCancel(s)
        \/ \E how \in ExitWays : SessionExit(s, how)
        \/ restore_dump(s)

Next == SessionCmds \/ SessionNext

Spec == Init /\ [][Next]_vars

\* the same program with I/O faults in the writes of the settings file
FaultNext ==
    \/ save_fault
    \/ copy_fault
    \/ \E s \in Sessions : restore_fault(s)

NextIO == Next \/ FaultNext

SpecIO == Init /\ [][NextIO]_vars

\* one download session by itself, whose collaborators may raise exceptions
\* that carry no message
InitSolo ==
    /\ backups = NoBackups
    /\ file \in {Absent, Json(Update(to_dict(get_presets["minimal"]), [token |-> S("secret")]))}
    /\ InitStore /\ InitSessions /\ live = {1} /\ quota = 0 /\ probe = NoProbe

SoloNext == SessionNext \/ \E s \in Sessions : raise_silent(s)

SpecSolo == InitSolo /\ [][SoloNext]_vars

\* two requests of one user, each in its own session, from their start to the
\* exit of their children
InitPair ==
    /\ backups = NoBackups
    /\ file \in {Absent, Json(Update(to_dict(get_presets["minimal"]), [token |-> S("secret")]))}
    /\ InitStore /\ InitSessions /\ live = Sessions /\ quota = 0 /\ probe = NoProbe

PairNext ==
    \/ Tick
    \/ \E s \in Sessions :
        \/ \E options \in OptionSets : SessionEnter(s, options)
        \/ overlay_dump(s)
        \/ overlay_fault(s)
        \/ Spawn(s)
        \/ ChildRead(s)
        \/ \E code \in {0, 1} : ChildExit(s, code)

SpecPair == InitPair /\ [][PairNext]_vars

\* two sessions that overlap, from their start to their end, on a settings file
\* that exists: neither session leaves its block before the other has entered
OverlapFile == Json(Update(to_dict(get_presets["minimal"]), [token |-> S("secret")]))

InitOverlap ==
    /\ backups = NoBackups
    /\ file = OverlapFile
    /\ InitStore /\ InitSessions /\ live = Sessions /\ quota = 0 /\ probe = NoProbe

OverlapNext ==
    \/ Tick
    \/ \E s \in Sessions :
        \/ SessionEnter(s, EmptyObj)
        \/ overlay_dump(s)
        \/ Spawn(s)
        \/ ChildExit(s, 1)
        \/ \E stream \in {"out", "err"} : drain_eof(s, stream)
        \/ poll_stop(s)
        \/ gather_done(s)
        \/ process_wait(s)
        \/ SessionExit(s, "return") /\ \A t \in Sessions : pc[t] # "idle"
        \/ restore_dump(s)

SpecOverlap == InitOverlap /\ [][OverlapNext]_vars

\* one session on a settings file that exists, with configuration commands
\* issued before it, while it runs and after it
InitDuring ==
    /\ backups = NoBackups
    /\ file = Json(to_dict(TidalNGConfig))
    /\ InitStore /\ InitSessions /\ live = {1} /\ quota = MaxCmds /\ probe = NoProbe

DuringNext ==
    \/ set_value("quality_audio", S("HIGH"))
    \/ apply_preset("minimal")
    \/ reset_to_defaults
    \/ LoadConfig
    \/ save_dump
    \/ save_replace
    \/ \E s \in Sessions :
        \/ SessionEnter(s, EmptyObj)
        \/ overlay_dump(s)
        \/ Spawn(s)
        \/ ChildExit(s, 1)
        \/ \E stream \in {"out", "err"} : drain_eof(s, stream)
        \/ poll_stop(s)
        \/ gather_done(s)
        \/ process_wait(s)
        \/ SessionExit(s, "return")
        \/ restore_dump(s)

SpecDuring == InitDuring /\ [][DuringNext]_vars

\* one download session seen from its monitoring tasks: the child writes lines,
\* the drains translate them, the poller watches the cancel signal
StdoutLines == {<<"D", "o", "w", "n", "l", "o", "a", "d", "i", "n", "g", " ", "4", "2", "%">>,
                <<"2", "5", "0", "%">>}
StderrLines == {<<"r", "e", "t", "r", "y">>}

InitMonitor ==
    /\ backups = NoBackups
    /\ file = Absent
    /\ InitStore /\ InitSessions /\ live = {1} /\ quota = 0 /\ probe = NoProbe

MonitorNext ==
    \E s \in Sessions :
        \/ SessionEnter(s, EmptyObj)
        \/ overlay_dump(s)
        \/ Spawn(s)
        \/ \E line \in StdoutLines : ChildWrite(s, "out", line)
        \/ \E line \in StderrLines : ChildWrite(s, "err", line)
        \/ \E code \in {0, -15} : ChildExit(s, code)
        \/ \E stream \in {"out", "err"} : drain_line(s, stream)
        \/ \E stream \in {"out", "err"} : reporter_call(s, stream)
        \/ \E stream \in {"out", "err"} : drain_eof(s, stream)
        \/ \E stream \in {"out", "err"} : drain_raise(s, stream)
        \/ poll_cancel(s)
        \/ poll_stop(s)
        \/ gather_done(s)
        \/ process_wait(s)
        \/ SetCancel(s)

SpecMonitor == InitMonitor /\ [][MonitorNext]_vars

\* one download session whose child writes MaxLines lines to its standard output
\* through a pipe of PipeCapacity lines and then exits by itself; nobody cancels
written(s, stream) == hand[s][stream].n + Len(pipe[s][stream])

DrainNext ==
    \E s \in Sessions :
        \/ SessionEnter(s, EmptyObj)
        \/ overlay_dump(s)
        \/ Spawn(s)
        \/ \E line \in StdoutLines :
              ChildWrite(s, "out", line) /\ Len(pipe[s].out) < PipeCapacity
        \/ ChildExit(s, 0) /\ written(s, "out") = MaxLines
        \/ \E stream \in {"out", "err"} : drain_line(s, stream)
        \/ \E stream \in {"out", "err"} : reporter_call(s, stream)
        \/ \E stream \in {"out", "err"} : drain_eof(s, stream)
        \/ \E stream \in {"out", "err"} : drain_raise(s, stream)
        \/ poll_stop(s)
        \/ gather_done(s)
        \/ process_wait(s)

SpecDrain == InitMonitor /\ [][DrainNext]_vars

\* the same session on an event loop that runs every task that is ready
SpecSoloFair == SpecSolo /\ WF_vars(SoloNext)

(***************************************************************************)
(* validate as a pure function: records drawn from a product of field      *)
(* values, each inside and outside its field's rule.                       *)
(***************************************************************************)
ProbeRecords ==
    {[TidalNGConfig EXCEPT !.quality_audio = qa, !.downloads_concurrent_max = cm,
                           !.metadata_cover_dimension = cd, !.retry_attempts = ra,
                           !.timeout_seconds = ts, !.download_base_path = bp,
                           !.skip_existing = se] :
        qa \in {S("LOSSLESS"), S("ULTRA")}, cm \in {I(0), I(3), I(11)},
        cd \in {I(1200), I(5001)}, ra \in {I(-1), I(3)}, ts \in {I(300), I(3601)},
        bp \in {S(""), S("~/download")}, se \in {B(TRUE), S("yes")}}

InitValidate ==
    /\ file = Absent
    /\ backups = NoBackups
    /\ InitStore /\ InitSessions /\ live = {} /\ quota = 0
    /\ probe \in {[NoProbe EXCEPT !.fn = "validate", !.arg = r] : r \in ProbeRecords}

\* errors = config.validate()
ProbeValidate ==
    /\ probe.fn = "validate" /\ ~probe.done
    /\ probe' = [probe EXCEPT !.done = TRUE,
                              !.raised = CallValidate(probe.arg).raised,
                              !.errors = CallValidate(probe.arg).errors]
    /\ UNCHANGED <<file, fileMtime, tmp, backups, cfg, clock, io, ret, cmds, live, quota,
                   dirs, pipe, hand, calls>>
    /\ UNCHANGED sessVars

SpecValidate == InitValidate /\ [][ProbeValidate]_vars

(***************************************************************************)
(* _determine_content_type as a pure function of the files a download left *)
(* behind and of the items extracted from them.                            *)
(***************************************************************************)
\* the files one download leaves, each with or without readable metadata
ClassifyFiles ==
    {Audio(a, ok) : a \in {"X", "Y", "", NoLabel}, ok \in BOOLEAN} \cup
    {Video(ok) : ok \in BOOLEAN}
ClassifyInputs ==
    {fs \in UNION {[1..n -> ClassifyFiles] : n \in 1..MaxFiles} :
        _extract_metadata(fs) # << >>}

InitClassify ==
    /\ file = Absent
    /\ backups = NoBackups
    /\ InitStore /\ InitSessions /\ live = {} /\ quota = 0
    /\ probe \in {[fn |-> "classify", files |-> fs, items |-> _extract_metadata(fs),
                    done |-> FALSE, kind |-> "none"] : fs \in ClassifyInputs}

\* content_type = self._determine_content_type(metadata, files)
ProbeClassify ==
    /\ probe.fn = "classify" /\ ~probe.done
    /\ probe' = [probe EXCEPT !.done = TRUE,
                              !.kind = _determine_content_type(probe.items, probe.files)]
    /\ UNCHANGED <<file, fileMtime, tmp, backups, cfg, clock, io, ret, cmds, live, quota,
                   dirs, pipe, hand, calls>>
    /\ UNCHANGED sessVars

SpecClassify == InitClassify /\ [][ProbeClassify]_vars

(***************************************************************************)
(* The overlay as a pure function of the caller's options.                 *)
(***************************************************************************)
\* values a caller gives a flag-like option
FlagValues == {B(TRUE), B(FALSE), I(0), I(1), S(""), S("false")}
\* options with or without an integer 'concurrent' and with one flag-like option
OptionProbes ==
    {[o \in {f} |-> v] : f \in FlagOptions, v \in FlagValues} \cup
    {Update([o \in {f} |-> v], [concurrent |-> I(n)]) :
        f \in FlagOptions, v \in FlagValues, n \in (0 - 2)..MaxConcurrent}

InitOptions ==
    /\ file = Absent
    /\ backups = NoBackups
    /\ InitStore /\ InitSessions /\ live = {} /\ quota = 0
    /\ probe \in {[fn |-> "options", options |-> o, done |-> FALSE, settings |-> EmptyObj] :
                    o \in OptionProbes}

\* new_settings as _apply_download_settings computes it from a default snapshot
ProbeOptions ==
    /\ probe.fn = "options" /\ ~probe.done
    /\ probe' = [probe EXCEPT !.done = TRUE,
                              !.settings = new_settings(to_dict(TidalNGConfig),
                                                        _create_temp_download_path(1, 0),
                                                        probe.options)]
    /\ UNCHANGED <<file, fileMtime, tmp, backups, cfg, clock, io, ret, cmds, live, quota,
                   dirs, pipe, hand, calls>>
    /\ UNCHANGED sessVars

SpecOptions == InitOptions /\ [][ProbeOptions]_vars

(***************************************************************************)
(* _parse_progress as a pure function of one line of output.               *)
(***************************************************************************)
\* words of the child's output
OutputWords ==
    {<<"D", "o", "w", "n", "l", "o", "a", "d", "i", "n", "g">>,
     <<"P", "r", "o", "c", "e", "s", "s", "i", "n", "g">>,
     <<"C", "o", "n", "v", "e", "r", "t">>,
     <<"E", "x", "t", "r", "a", "c", "t", "i", "n", "g">>,
     <<"F", "i", "n", "i", "s", "h", "e", "d">>,
     <<"F", "a", "i", "l", "e", "d">>,
     <<"d", "o", "w", "n", "l", "o", "a", "d", "i", "n", "g">>,
     <<"t", "r", "a", "c", "k">>,
     <<"4", "2", "%">>,
     <<"2", "5", "0", "%">>,
     <<"3", "/", "1", "0">>,
     <<"1", "2", ".", "5", "%">>,
     <<"7", "/">>,
     <<"5", "0", "/", "1", "0", "0", "%">>}

\* lines of up to MaxWords words
OutputLines == UNION {[1..n -> OutputWords] : n \in 1..MaxWords}

\* the text of a line: its words joined by blanks
RECURSIVE Join(_)
Join(ws) ==
    IF Len(ws) = 1 THEN ws[1]
    ELSE Join(SubSeq(ws, 1, Len(ws) - 1)) \o <<" ">> \o ws[Len(ws)]

InitParse ==
    /\ file = Absent
    /\ backups = NoBackups
    /\ InitStore /\ InitSessions /\ live = {} /\ quota = 0
    /\ probe \in {[fn |-> "parse", words |-> ws, output |-> Join(ws), done |-> FALSE,
                    calls |-> << >>] : ws \in OutputLines}

\* await self._parse_progress(output, progress_reporter)
ProbeParse ==
    /\ probe.fn = "parse" /\ ~probe.done
    /\ probe' = [probe EXCEPT !.done = TRUE, !.calls = _parse_progress(probe.output)]
    /\ UNCHANGED <<file, fileMtime, tmp, backups, cfg, clock, io, ret, cmds, live, quota,
                   dirs, pipe, hand, calls>>
    /\ UNCHANGED sessVars

SpecParse == InitParse /\ [][ProbeParse]_vars

(***************************************************************************)
(* set_value alone: one call on a store that holds a valid record, with    *)
(* values inside and outside each field's rule.                            *)
(***************************************************************************)
SetProbes ==
    {<<"quality_audio", v>> : v \in {S("HIGH"), S("ULTRA"), I(1)}} \cup
    {<<"quality_video", v>> : v \in {S("720"), S("4K")}} \cup
    {<<"downloads_concurrent_max", v>> :
        v \in {I(0), I(1), I(10), I(11), B(TRUE), S("3")}} \cup
    {<<"metadata_cover_dimension", v>> : v \in {I(0), I(1), I(5000), I(5001)}} \cup
    {<<"retry_attempts", v>> : v \in {I(-1), I(0), I(10), I(11)}} \cup
    {<<"timeout_seconds", v>> : v \in {I(0), I(1), I(3600), I(3601), S("300")}} \cup
    {<<"download_base_path", v>> : v \in {S(""), S("/data"), I(5)}} \cup
    {<<"skip_existing", v>> : v \in {B(FALSE), I(1), S("yes")}}

InitSet ==
    /\ backups = NoBackups
    /\ file \in {Absent} \cup {Json(o) : o \in InitObjs}
    /\ InitStore /\ InitSessions /\ live = {} /\ quota = 1 /\ probe = NoProbe

SetNext ==
    \/ \E kv \in SetProbes : set_value(kv[1], kv[2])
    \/ save_dump
    \/ save_replace

SpecSet == InitSet /\ [][SetNext]_vars

(***************************************************************************)
(* load_config alone: one call on each kind of settings file.              *)
(***************************************************************************)
LoadObjects ==
    {Update(Update(to_dict(TidalNGConfig),
                   [timeout_seconds |-> ts, retry_attempts |-> ra,
                    skip_existing |-> se, quality_audio |-> qa]), extra) :
        ts \in {I(300), I(0), S("300")}, ra \in {I(3), S("3")},
        se \in {B(TRUE), S("yes")}, qa \in {S("LOSSLESS"), S("ULTRA")},
        extra \in {EmptyObj, [token |-> S("secret")], [validate |-> S("strict")]}}

LoadFiles == {Absent, Partial, NonObject} \cup {Json(o) : o \in LoadObjects}

InitLoad ==
    /\ backups = NoBackups
    /\ file \in LoadFiles
    /\ InitStore /\ InitSessions /\ live = {} /\ quota = 1 /\ probe = NoProbe

SpecLoad == InitLoad /\ [][LoadConfig]_vars

(***************************************************************************)
(* The backups directory: saves, manual backups, restores and cleanups.    *)
(***************************************************************************)
InitPrune ==
    /\ backups = NoBackups
    /\ file \in {Json(o) : o \in InitObjs}
    /\ InitStore /\ InitSessions /\ live = {} /\ quota = MaxPruneCmds
    /\ probe = NoProbe

PruneNext ==
    \/ tidal_ng_backup
    \/ \E kv \in {<<"quality_audio", S("HIGH")>>, <<"skip_existing", B(FALSE)>>} :
          set_value(kv[1], kv[2])
    \/ save_dump
    \/ save_replace
    \/ \E name \in 0..MaxClock : tidal_ng_restore(name)
    \/ restore_copy
    \/ \E keep_count \in 0..MaxKeep : cleanup_old_backups(keep_count)
    \/ Tick

SpecPrune == InitPrune /\ [][PruneNext]_vars

\* the same with unlink failures
PruneNextIO == PruneNext \/ \E keep_count \in 0..MaxKeep : cleanup_unlink_fault(keep_count)

SpecPruneIO == InitPrune /\ [][PruneNextIO]_vars

(***************************************************************************)
(* Properties.                                                             *)
(***************************************************************************)
Range(seq) == {seq[i] : i \in 1..Len(seq)}

\* C1: when a session that found a JSON object in the settings file ends - on
\* whichever path: failed child, no files, no metadata, success and upload, task
\* cancellation, an exception in download or upload - the settings file holds
\* again the content it held at session entry.
C1_SessionRestoresSettings ==
    [][\A s \in Sessions :
          (pc[s] # "ended" /\ pc'[s] = "ended" /\ work[s].entry.kind = "json")
              => file' = work[s].entry]_vars

\* a session ended after a cancelled download that had overlaid the settings
C1_Witness ==
    \E s \in Sessions :
        /\ pc[s] = "ended" /\ work[s].entry.kind = "json"
        /\ outcome[s].status = "cancelled" /\ work[s].exit = "exception"
        /\ overlay[s] # work[s].entry.obj
        /\ file = work[s].entry

\* C2: once the poller has seen the cancel signal while the child runs, the
\* outcome of the session is cancelled and nothing is collected.
C2_CancelSignalGivesCancelled ==
    \A s \in Sessions :
        (mon[s].seen /\ outcome[s].status # "none")
            => (outcome[s].status = "cancelled" /\ ~work[s].collected)

\* C3: whenever the settings file is complete and parses, the record it holds
\* passes validate.
C3_ActiveRecordValid ==
    (Quiet /\ file.kind = "json") => Valid(from_dict(file.obj))

\* C4: save_config of a record with a violation returns failure and leaves the
\* settings file, the temp file and the backups as they were.
C4_SaveRefusesInvalid ==
    [][\A config \in InputRecords :
          (save_config(config) /\ CallValidate(config).errors # << >>)
              => /\ ret'.op = "save_config" /\ ~ret'.ok
                 /\ file' = file /\ tmp' = tmp /\ backups' = backups /\ io' = io]_vars

\* a refused save with a settings file on disk
C4_Witness ==
    /\ ret.op = "save_config" /\ ~ret.ok /\ Quiet
    /\ file.kind = "json" /\ tmp = Absent /\ backups = NoBackups

\* C5: when download() has returned an outcome, the child of the session is no
\* longer running.
C5_ChildExitedAtReturn ==
    \A s \in Sessions : outcome[s].status # "none" => child[s].st # "running"

\* C6: after a successful save the loaded record equals the saved one field by
\* field, and after a successful set_value(key, value) the loaded record has
\* value for key.
C6_SaveCalls == {"save_config", "set_value", "apply_preset", "reset_to_defaults"}
C6_SaveLoadRoundTrip ==
    (Quiet /\ ret.ok /\ ret.op \in C6_SaveCalls)
        => /\ \A f \in Fields : load_config(file)[f] = cfg.rec[f]
           /\ ret.op = "set_value"
                => /\ ret.key \in DOMAIN load_config(file)
                   /\ load_config(file)[ret.key] = ret.val

\* C7: while save_config is between its file-system steps, a reader of the
\* settings file finds the complete previous content or the complete new one.
C7_SaveAtomicToReaders ==
    io.op = "save"
        => /\ file.kind # "partial"
           /\ file = io.old \/ file = Json(to_dict(io.new))

\* a save that has opened its temp file over an existing settings file
C7_Witness ==
    /\ io.op = "save" /\ io.step = "open" /\ tmp = Partial
    /\ file.kind = "json" /\ file # Json(to_dict(io.new))

\* C8: no write of the settings file, failed or not, leaves it truncated or
\* partially written.
C8_NeverPartial == Quiet => file.kind # "partial"

\* C9: when a write replaces the content of the settings file, a backup holding
\* the replaced content exists.
C9_BackupBeforeOverwrite ==
    (io.op # "none" /\ io.old.kind # "absent")
        => \E n \in DOMAIN backups : backups[n].content = io.old

\* the field rule table: the value of field f breaks its rule
C10_RuleBroken(config, f) ==
    CASE f = "quality_audio" -> config[f] \notin QualityAudio
      [] f = "quality_video" -> config[f] \notin QualityVideo
      [] f = "downloads_concurrent_max" -> ~(IsInt(config[f]) /\ Num(config[f]) \in 1..10)
      [] f = "metadata_cover_dimension" -> ~(IsInt(config[f]) /\ Num(config[f]) \in 1..5000)
      [] f = "retry_attempts" -> ~(IsInt(config[f]) /\ Num(config[f]) \in 0..10)
      [] f = "timeout_seconds" -> ~(IsInt(config[f]) /\ Num(config[f]) \in 1..3600)
      [] f \in PathFields -> ~(IsStr(config[f]) /\ config[f].v # "")
      [] f \in BoolFields -> ~IsBool(config[f])
C10_RuleFields == Range(ValidatedFields) \cup BoolFields

\* C10: validate names every field whose value breaks its rule, once each, and
\* a record with a broken rule is not accepted for saving.
C10_ValidateReportsEveryRule ==
    probe.done =>
        /\ \A f \in C10_RuleFields :
              C10_RuleBroken(probe.arg, f) => (f \in Range(probe.errors) /\ ~Valid(probe.arg))
        /\ Len(probe.errors) = Cardinality({f \in C10_RuleFields : C10_RuleBroken(probe.arg, f)})

\* C11: a set_value whose key is no declared field of the record returns
\* failure.
C11_SetValueRejectsUnknownKey ==
    (Quiet /\ ret.op = "set_value" /\ ret.key \notin Fields) => ~ret.ok

\* C12: from a valid record, set_value of a field of the rule table succeeds
\* exactly when the value is inside the field's rule.
C12_SetValueFollowsRuleTable ==
    (Quiet /\ ret.op = "set_value" /\ ret.key \in C10_RuleFields)
        => (ret.ok <=> ~C10_RuleBroken(SetAttr(TidalNGConfig, ret.key, ret.val), ret.key))

\* the record get_value reads: _config, loaded from the file when it is None
C13_Record == IF cfg.set THEN cfg.rec ELSE load_config(file)

\* C13: a set_value, apply_preset or restore-from-backup that returns failure
\* at once leaves the settings file, the backups and the in-memory record as
\* they were.
C13_FailedCommandChangesNothing ==
    [][(/\ cmds' = cmds + 1
        /\ io'.op = "none"
        /\ ret'.op \in {"set_value", "apply_preset", "restore"}
        /\ ~ret'.ok)
          => /\ file' = file
             /\ backups' = backups
             /\ C13_Record' = C13_Record]_vars

\* C14: load_config returns a record and does not raise, whatever the settings
\* file holds; on a missing or unparseable file the record is the defaults.
C14_LoadNeverRaises ==
    ret.op = "load_config"
        => /\ ~ret.raised
           /\ cfg.set
           /\ file.kind \in {"absent", "partial"} => cfg.rec = TidalNGConfig

\* C15: cleanup_old_backups(keep_count = N) leaves min(N, count) backups, and
\* every backup it leaves was created later than every backup it deletes
\* (a backup's name is the second of its creation).
C15_CleanupKeepsNewest ==
    [][(cmds' = cmds + 1 /\ io'.op = "none" /\ ret'.op = "cleanup" /\ ret'.ok)
          => /\ Cardinality(DOMAIN backups')
                  = Min(ret'.val.v, Cardinality(DOMAIN backups))
             /\ \A k \in DOMAIN backups' :
                   \A d \in (DOMAIN backups) \ (DOMAIN backups') : k > d]_vars

\* C16: when one unlink fails during the sweep, at most that one backup beyond
\* position keep_count is left.
C16_CleanupGoesOnAfterFailure ==
    [][(cmds' = cmds + 1 /\ io'.op = "none" /\ ret'.op = "cleanup" /\ ~ret'.ok)
          => Cardinality(DOMAIN backups')
                <= Min(ret'.val.v, Cardinality(DOMAIN backups)) + 1]_vars

\* a step in which a backup is made: /tidal_ng_backup with a settings file, or
\* a save that has passed validation with a settings file on disk
C17_BackupMade ==
    /\ io.op = "none"
    /\ file.kind # "absent"
    /\ \/ cmds' = cmds + 1 /\ io'.op = "none" /\ ret'.op = "backup" /\ ret'.ok
       \/ io'.op = "save"

\* C17: no step changes a backup that exists before and after it, and a step
\* that makes a backup adds a new name to the directory.
C17_BackupsImmutable ==
    [][/\ \A n \in (DOMAIN backups) \cap (DOMAIN backups') : backups'[n] = backups[n]
       /\ C17_BackupMade => /\ (DOMAIN backups) \subseteq (DOMAIN backups')
                            /\ DOMAIN backups' # DOMAIN backups]_vars

\* C18: while a session is at its upload stage, the settings file holds the
\* configuration snapshotted at session entry again.
C18_RestoredBeforeUpload ==
    \A s \in Sessions :
        (pc[s] = "upload" /\ work[s].entry.kind = "json") => file = work[s].entry

\* download() has returned to start_tidal_ng_enhanced
C19_Returned == {"report", "upload", "restoring", "ended"}

\* C19 as stated: once any exception was raised in the session - in download()
\* itself or in a task supervising the child - the outcome, unless the task was
\* cancelled, is failed with the exception's message; and every outcome has
\* one of the three final statuses.
C19_EveryExceptionFails ==
    \A s \in Sessions :
        /\ outcome[s].status \in {"none", "completed", "failed", "cancelled"}
        /\ (/\ outcome[s].status \notin {"none", "cancelled"}
            /\ "raised" \in {mon[s].out, mon[s].err})
              => /\ outcome[s].status = "failed" /\ ~outcome[s].success
                 /\ outcome[s].error = "exception"

\* C19, amended: an exception that reaches download() itself (applying the
\* overlay, reporting a stage, spawning the child) is converted into a failed
\* outcome carrying its message, download() always returns an outcome, and
\* every outcome has one of the three final statuses.  An exception inside a
\* monitoring task does not decide the outcome.
C19_DownloadConvertsExceptions ==
    [][\A s \in Sessions :
          /\ (\/ Raise(s)
              \/ overlay_fault(s)
              \/ \E options \in OptionSets :
                    parse_raises(options) /\ SessionEnter(s, options))
                => /\ outcome'[s].status = "failed" /\ ~outcome'[s].success
                   /\ outcome'[s].error = "exception"
                   /\ pc'[s] = "report"
          /\ outcome'[s].status \in {"none", "completed", "failed", "cancelled"}
          /\ pc'[s] \in C19_Returned <=> outcome'[s].status # "none"]_vars

\* an exception raised after the overlay was written has become a failed outcome
C19_Witness ==
    \E s \in Sessions :
        /\ pc[s] = "report" /\ overlay[s] # EmptyObj
        /\ outcome[s].status = "failed" /\ outcome[s].error = "exception"

\* C20: an outcome with success true is completed, with files, metadata and a
\* kind other than unknown; a failed or cancelled outcome has success false and
\* a non-empty error reason.
C20_OutcomeWellFormed ==
    \A s \in Sessions :
        /\ outcome[s].success
              => /\ outcome[s].status = "completed"
                 /\ outcome[s].nfiles > 0 /\ outcome[s].nmeta > 0
                 /\ outcome[s].kind \in {"track", "album", "playlist", "video"}
        /\ outcome[s].status \in {"failed", "cancelled"}
              => ~outcome[s].success /\ outcome[s].error # ""

\* C21: once download() has returned without having been cancelled, a child
\* that exited with a non-zero code gives the failed outcome "Download process
\* failed" with no file collected and no metadata extracted; files are
\* collected only after the child exited with code 0; and an empty collection
\* or extraction gives the failed outcome carrying its own reason.
C21_NotCancelled(s) == pc[s] \in C19_Returned /\ outcome[s].status # "cancelled"
C21_ExitCodeGatesClassification ==
    \A s \in Sessions :
        /\ (C21_NotCancelled(s) /\ child[s].st = "exited" /\ child[s].code # 0)
               => /\ outcome[s] = Failed("Download process failed", 0)
                  /\ ~work[s].collected /\ work[s].files = << >> /\ work[s].meta = << >>
        /\ work[s].collected => child[s].st = "exited" /\ child[s].code = 0
        /\ (work[s].collected /\ work[s].files = << >>)
               => outcome[s] = Failed("No files were downloaded", 0)
        /\ (C21_NotCancelled(s) /\ work[s].collected /\ work[s].files # << >>
                /\ work[s].meta = << >>)
               => outcome[s] = Failed("Metadata extraction failed", Len(work[s].files))
        /\ outcome[s].success => work[s].collected /\ work[s].meta # << >>

\* a session whose child exited with a non-zero code has returned
C21_Witness ==
    \E s \in Sessions :
        /\ pc[s] = "report" /\ child[s].st = "exited" /\ child[s].code = 1
        /\ outcome[s].error = "Download process failed"

\* C22: _execute_download returns only once the child has exited, true exactly
\* when the exit code is 0, whatever the state of the three monitoring tasks;
\* a drain that raises leaves the other two monitoring tasks as they were; and
\* a child, once spawned, is never spawned again.
C22_Supervising == {"gather", "wait"}
C22_ResultIsExitCode ==
    [][\A s \in Sessions :
        /\ (pc[s] \in C22_Supervising /\ pc'[s] \notin C22_Supervising
                /\ outcome'[s].status # "cancelled")
               => /\ child[s].st = "exited"
                  /\ pc'[s] = "stage1" <=> child[s].code = 0
                  /\ pc'[s] # "stage1"
                         => pc'[s] = "report"
                            /\ outcome'[s] = Failed("Download process failed", 0)
        /\ (mon[s].out = "run" /\ mon'[s].out = "raised")
               => mon'[s].err = mon[s].err /\ mon'[s].poll = mon[s].poll
        /\ (mon[s].err = "run" /\ mon'[s].err = "raised")
               => mon'[s].out = mon[s].out /\ mon'[s].poll = mon[s].poll
        /\ child[s].st # "none"
               => child'[s].st \in {"running", "exited"}
                  /\ (child[s].st = "exited" => child'[s] = child[s])]_vars

\* the supervisor returned true although a drain had raised, while the other
\* drain ran to its end
C22_Witness ==
    \E s \in Sessions :
        /\ pc[s] = "stage1" /\ child[s].code = 0
        /\ mon[s].out = "raised" /\ mon[s].err = "done"

\* C23: for non-empty items and files the content type is video when there is
\* one item and some file is a video; else, with several items, album when all
\* items carry one and the same non-empty album label and playlist otherwise;
\* else track.
C23_Labels(items) ==
    {IF items[i].album = NoLabel THEN "" ELSE items[i].album : i \in 1..Len(items)}
C23_Expected(items, files) ==
    IF Len(items) = 1 /\ \E i \in 1..Len(files) : files[i].kind = "video"
    THEN "video"
    ELSE IF Len(items) > 1
    THEN IF Cardinality(C23_Labels(items)) = 1 /\ "" \notin C23_Labels(items)
         THEN "album" ELSE "playlist"
    ELSE "track"
C23_Examples ==
    /\ _determine_content_type(<<Video(TRUE)>>, <<Audio("X", FALSE), Video(TRUE)>>) = "video"
    /\ _determine_content_type(<<Audio("X", TRUE)>>, <<Audio("X", TRUE), Video(FALSE)>>) = "video"
    /\ LET xs == <<Audio("X", TRUE), Audio("X", TRUE), Audio("X", TRUE)>> IN
       _determine_content_type(xs, xs) = "album"
    /\ LET xs == <<Audio("X", TRUE), Audio("Y", TRUE), Audio("X", TRUE)>> IN
       _determine_content_type(xs, xs) = "playlist"
    /\ _determine_content_type(<<Audio("X", TRUE)>>, <<Audio("X", TRUE)>>) = "track"
    /\ LET xs == <<Audio("", TRUE), Audio("", TRUE)>> IN
       _determine_content_type(xs, xs) = "playlist"
    /\ LET xs == <<Audio(NoLabel, TRUE), Audio(NoLabel, TRUE)>> IN
       _determine_content_type(xs, xs) = "playlist"
C23_ClassificationTable ==
    (probe.fn = "classify" /\ probe.done)
        => probe.kind = C23_Expected(probe.items, probe.files) /\ C23_Examples

\* several items without an album label were classified
C23_Witness ==
    /\ probe.fn = "classify" /\ probe.done /\ Len(probe.items) = 2
    /\ \A i \in 1..2 : probe.items[i].album = NoLabel
    /\ probe.kind = "playlist"

\* C24: two distinct sessions that have applied their settings have distinct
\* temporary download directories.
C24_DistinctDirectories ==
    \A s, t \in Sessions :
        (s # t /\ overlay[s] # EmptyObj /\ overlay[t] # EmptyObj)
            => overlay[s]["download_base_path"] # overlay[t]["download_base_path"]

\* C25: once a session has ended, whatever its outcome, the temporary download
\* directory it made no longer exists.
C25_DirectoryReleased ==
    \A s \in Sessions :
        (pc[s] = "ended" /\ overlay[s] # EmptyObj)
            => overlay[s]["download_base_path"].v \notin dirs

\* C26: every preset of the table passes validate() without a violation;
\* apply_preset succeeds exactly for the names of the table, and after a
\* successful apply_preset the settings file and the active record are the
\* preset of that name.
C26_PresetsApply ==
    /\ \A n \in PresetNames :
           ~CallValidate(get_presets[n]).raised /\ CallValidate(get_presets[n]).errors = << >>
    /\ (Quiet /\ ret.op = "apply_preset")
           => /\ ret.ok <=> ret.key \in PresetNames
              /\ ret.ok => /\ file = Json(to_dict(get_presets[ret.key]))
                           /\ cfg = [set |-> TRUE, rec |-> get_presets[ret.key]]

\* a preset was applied over a settings file that held something else
C26_Witness ==
    /\ Quiet /\ ret.op = "apply_preset" /\ ret.ok /\ ret.key = "archive_quality"
    /\ file = Json(to_dict(get_presets["archive_quality"]))
    /\ \E n \in DOMAIN backups : backups[n].content # file

\* C27: the events of a line are a function of the line: at most one stage
\* event, that of the first keyword group (downloading, processing, converting,
\* extracting, completed, error) one of whose keywords occurs in the line; then
\* a percent event from the first N% token and an items event from the first
\* A/B token, each on its own; nothing for a line without any of them.
C27_GroupOf ==
    <<"D", "o", "w", "n", "l", "o", "a", "d", "i", "n", "g">> :> 1 @@ <<"P", "r", "o", "c", "e", "s", "s", "i", "n", "g">> :> 2 @@ <<"C", "o", "n", "v", "e", "r", "t">> :> 3 @@ <<"E", "x", "t", "r", "a", "c", "t", "i", "n", "g">> :> 4 @@ <<"F", "i", "n", "i", "s", "h", "e", "d">> :> 5 @@ <<"F", "a", "i", "l", "e", "d">> :> 6
C27_StageOf ==
    <<"Downloading...", "Processing...", "Converting...", "Extracting...",
      "Download complete!", "Error: ">>
C27_PercentOf == <<"4", "2", "%">> :> 42 @@ <<"2", "5", "0", "%">> :> 250 @@ <<"1", "2", ".", "5", "%">> :> 5 @@ <<"5", "0", "/", "1", "0", "0", "%">> :> 100
C27_TracksOf == <<"3", "/", "1", "0">> :> <<3, 10>> @@ <<"5", "0", "/", "1", "0", "0", "%">> :> <<50, 100>>
C27_First(ws, table) ==
    LET at == {i \in 1..Len(ws) : ws[i] \in DOMAIN table} IN
    IF at = {} THEN << >> ELSE <<table[ws[CHOOSE i \in at : \A k \in at : i <= k]]>>
C27_Expected(ws) ==
    LET ranks == {C27_GroupOf[ws[i]] : i \in {k \in 1..Len(ws) : ws[k] \in DOMAIN C27_GroupOf}}
        stage == IF ranks = {} THEN << >>
                 ELSE LET g == CHOOSE r \in ranks : \A q \in ranks : r <= q IN
                      <<StageEvent(C27_StageOf[g],
                                   IF g = 6 THEN Head50(Join(ws)) ELSE << >>)>>
        percent == C27_First(ws, C27_PercentOf)
        tracks == C27_First(ws, C27_TracksOf) IN
    stage
    \o (IF percent = << >> THEN << >> ELSE <<PercentEvent(percent[1])>>)
    \o (IF tracks = << >> THEN << >> ELSE <<TracksEvent(tracks[1][1], tracks[1][2])>>)
C27_TranslationTable ==
    /\ _parse_progress(Join(<<<<"D", "o", "w", "n", "l", "o", "a", "d", "i", "n", "g">>, <<"4", "2", "%">>>>))
           = <<StageEvent("Downloading...", << >>), PercentEvent(42)>>
    /\ (probe.fn = "parse" /\ probe.done)
           => /\ probe.calls = C27_Expected(probe.words)
              /\ Len(SelectSeq(probe.calls, LAMBDA e : e.ev = "stage")) <= 1

\* a line whose first keyword belongs to a later group than its second one was
\* translated
C27_Witness ==
    /\ probe.fn = "parse" /\ probe.done
    /\ probe.words = <<<<"F", "a", "i", "l", "e", "d">>, <<"P", "r", "o", "c", "e", "s", "s", "i", "n", "g">>>>
    /\ probe.calls = <<StageEvent("Processing...", << >>)>>

\* C28: every percentage the translator hands to the reporter, and so the last
\* known percent of the session, lies in 0..100.
C28_PercentInRange ==
    \A s \in Sessions : \A i \in 1..Len(calls[s]) :
        calls[s][i].call.ev = "percent" => calls[s][i].call.a \in 0..100

\* C29: the poller sends a termination request only while the child runs and
\* the cancel signal is set, and stops polling in the same step, so at most one
\* request is sent and none when the signal was never set; while it polls it
\* stops of itself only for that reason or because the child has exited; and
\* once the child has exited a polling poller does stop.
C29_PollerProtocol ==
    /\ [](\A s \in Sessions :
            /\ child[s].term <= 1
            /\ child[s].term > 0 => cancel[s] /\ mon[s].seen /\ mon[s].poll = "done")
    /\ [][\A s \in Sessions :
            /\ child'[s].term # child[s].term
                   => /\ child'[s].term = child[s].term + 1
                      /\ cancel[s] /\ child[s].st = "running"
                      /\ mon[s].poll = "run" /\ mon'[s].poll = "done"
            /\ (mon[s].poll = "run" /\ mon'[s].poll = "done")
                   => \/ child[s].st = "exited" /\ child'[s].term = child[s].term
                      \/ cancel[s] /\ child'[s].term = child[s].term + 1]_vars
    /\ \A s \in Sessions :
            (mon[s].poll = "run" /\ child[s].st = "exited") ~> (mon[s].poll # "run")

\* a termination request was sent to a running child and the poller stopped
C29_Witness ==
    \E s \in Sessions :
        /\ child[s].st = "running" /\ child[s].term = 1
        /\ cancel[s] /\ mon[s].poll = "done" /\ mon[s].seen

\* C30: of two calls the reporter received from the same output stream, the
\* one that came first belongs to the same line as the other or to an earlier
\* line, however the two drains and the poller interleave.
C30_StreamOrder ==
    \A s \in Sessions : \A i, j \in 1..Len(calls[s]) :
        (i < j /\ calls[s][i].stream = calls[s][j].stream)
            => calls[s][i].line <= calls[s][j].line

\* a call of the standard error drain arrived between the calls of the first
\* and of the second line of standard output
C30_Witness ==
    \E s \in Sessions : \E i, j, k \in 1..Len(calls[s]) :
        /\ i < j /\ j < k
        /\ calls[s][i].stream = "out" /\ calls[s][i].line = 1
        /\ calls[s][j].stream = "err"
        /\ calls[s][k].stream = "out" /\ calls[s][k].line = 2

\* C31: the metadata list holds one item for each file whose extractor did not
\* raise, in the order of the files and tagged with its file; the session
\* fails with "Metadata extraction failed" exactly when files were collected
\* and the extractor raised on every one of them.
C31_Succeeded(files) == {i \in 1..Len(files) : files[i].ok}
C32_OverlayFrame ==
    [][\A s \in Sessions : \A options \in OptionSets :
        (SessionEnter(s, options) /\ ~parse_raises(options))
            => LET snapshot == orig'[s].obj
                   forced == forced_settings(_create_temp_download_path(user_id(s), clock))
                   named == {k \in DOMAIN options : k \in DOMAIN option_mapping}
                   chosen == {option_mapping[k] : k \in named} IN
               /\ DOMAIN overlay'[s] = DOMAIN snapshot \cup DOMAIN forced \cup chosen
               /\ \A k \in named :
                      overlay'[s][option_mapping[k]] = parse_option(k, options[k])
               /\ \A k \in DOMAIN forced \ chosen : overlay'[s][k] = forced[k]
               /\ \A k \in DOMAIN snapshot \ (DOMAIN forced \cup chosen) :
                      overlay'[s][k] = snapshot[k]]_vars

\* an overlay that keeps an undeclared key of the snapshot, has two forced
\* values replaced by the caller's and no key for the unrecognised option
C32_Witness ==
    \E s \in Sessions :
        /\ overlay[s] # EmptyObj
        /\ "token" \in DOMAIN overlay[s] /\ overlay[s]["token"] = S("secret")
        /\ overlay[s]["downloads_concurrent_max"] = I(10)
        /\ overlay[s]["skip_existing"] = B(FALSE)
        /\ overlay[s]["lyrics_embed"] = B(TRUE)
        /\ "colour" \notin DOMAIN overlay[s]

\* C33: with an integer 'concurrent' option the overlay's
\* downloads_concurrent_max is that integer clamped into 1..10, without the
\* option it is 3; the value stored for a flag-like option is True or False.
C33_Clamped(n) == IF n < 1 THEN 1 ELSE IF n > 10 THEN 10 ELSE n
C33_OptionsClamped ==
    (probe.fn = "options" /\ probe.done)
        => /\ probe.settings["downloads_concurrent_max"]
                  = IF "concurrent" \in DOMAIN probe.options
                    THEN I(C33_Clamped(probe.options["concurrent"].v))
                    ELSE I(3)
           /\ \A f \in DOMAIN probe.options \cap FlagOptions :
                  probe.settings[option_mapping[f]] \in {B(TRUE), B(FALSE)}

\* the option concurrent = 12 came out as 10, next to a flag given as a string
C33_Witness ==
    /\ probe.fn = "options" /\ probe.done
    /\ "concurrent" \in DOMAIN probe.options /\ probe.options["concurrent"] = I(12)
    /\ probe.settings["downloads_concurrent_max"] = I(10)
    /\ "skip" \in DOMAIN probe.options /\ probe.options["skip"] = S("false")
    /\ probe.settings["skip_existing"] = B(TRUE)

\* C34: when two sessions overlap, the settings a child read are the overlay
\* its own session wrote, so it downloads into its own session's directory.
C34_ChildReadsOwnOverlay ==
    \A s \in Sessions :
        child[s].saw # NotRead => child[s].saw = Json(overlay[s])

\* C35: once two overlapping sessions have both ended, the settings file holds
\* the configuration it held before the first of them started.
C35_OverlapRestoresFile ==
    (\A s \in Sessions : pc[s] = "ended") => file = OverlapFile

\* C36: a set_value, apply_preset or reset_to_defaults that returned success,
\* the only configuration command issued, is still in effect once the session
\* has ended: the settings file holds the record that command saved, whether
\* the command came before, during or after the session.
C36_CommandSurvivesSession ==
    (/\ Quiet /\ pc[1] = "ended" /\ cmds = 1 /\ ret.ok
     /\ ret.op \in {"set_value", "apply_preset", "reset_to_defaults"})
        => file = Json(to_dict(cfg.rec))

\* C37: set_value never works on a record that lags the settings file: the
\* record it goes on to save is the content of the file, as load_config reads
\* it, with the one key changed.
C37_SetValueReadsFile ==
    [][(/\ file.kind = "json"
        /\ set_value("quality_audio", S("HIGH"))
        /\ io'.op = "save")
           => io'.new = SetAttr(load_config(file), "quality_audio", S("HIGH"))]_vars

\* C38: a set_value that succeeds changes only the named key of the settings
\* file: every other key the file held before the call, declared by the record
\* or not, is still in the file with the same value.
C38_SetValueKeepsOtherKeys ==
    [][(/\ io.op = "save" /\ io.call = "set_value" /\ io.old.kind = "json"
        /\ save_replace)
           => /\ file'.kind = "json"
              /\ \A k \in (DOMAIN io.old.obj) \ {io.key} :
                    k \in DOMAIN file'.obj /\ file'.obj[k] = io.old.obj[k]]_vars

\* C40: a settings file that was absent, or did not parse, when the session
\* entered is in the same state once the session has ended.
C40_EmptySnapshotNotWritten ==
    \A s \in Sessions :
        (Quiet /\ pc[s] = "ended" /\ work[s].entry.kind # "json")
            => file = work[s].entry

\* C39: while _execute_download waits in gather or in process.wait(), the child
\* is never blocked for good: a child that still has output to write is not
\* facing a full pipe whose drain has stopped reading.
C39_ChildNeverBlocked ==
    \A s \in Sessions :
        ~(/\ pc[s] \in {"gather", "wait"}
          /\ child[s].st = "running"
          /\ written(s, "out") < MaxLines
          /\ Len(pipe[s].out) >= PipeCapacity
          /\ mon[s].out # "run")

====
